---------------------------- MODULE Spec2Model ----------------------------
(***************************************************************************)
(* A model of the SQL formatter core:                                      *)
(*   - the token disambiguator (src/src/lexer/disambiguateTokens.ts 1-102) *)
(*   - the statement formatter (same file, 104-549)                        *)
(*   - the public entry function (src/unnamed/part_000)                    *)
(***************************************************************************)
EXTENDS Integers, Sequences, FiniteSets, TLC

VARIABLES
    input,      \* disambiguateTokens: the `tokens` argument
    stream,     \* disambiguateTokens: the array the next .map() runs over
    dpass,      \* disambiguateTokens: number of .map() passes already run
    cfg,        \* format: the options record
    statements, \* format: the token sequence of each statement of the query
    sidx,       \* format: number of the statement being formatted
    sf,         \* the StatementFormatter instance (its fields)
    results,    \* format: the string each finished statement returned
    pc,         \* format: "idle", "new", "loop", "failed" or "done"
    partialCfg, \* the entry function: the language of its cfg argument
    FormatterCls \* the entry function: the formatter class selected

dvars == <<input, stream, dpass>>

fvars == <<cfg, statements, sidx, sf, results, pc>>

evars == <<partialCfg, FormatterCls>>

vars == <<input, stream, dpass, cfg, statements, sidx, sf, results, pc, partialCfg, FormatterCls>>

(***************************************************************************)
(* Part 1.  Token disambiguation                                           *)
(***************************************************************************)

\* Longest token sequence handed to disambiguateTokens.
MaxTokens == 4

\* Token of './token.js': { type, raw, text }.
DTok(type, raw, text) == [type |-> type, raw |-> raw, text |-> text]

\* What tokens[k] yields for an index outside the array.
Undefined == DTok("undefined", "", "")

ReservedTypes ==
    { "RESERVED_COMMAND", "RESERVED_BINARY_COMMAND", "RESERVED_DEPENDENT_CLAUSE",
      "RESERVED_JOIN_CONDITION", "RESERVED_LOGICAL_OPERATOR", "RESERVED_KEYWORD",
      "RESERVED_FUNCTION_NAME", "RESERVED_DATA_TYPE",
      "RESERVED_PARAMETERIZED_DATA_TYPE", "RESERVED_CASE_START",
      "RESERVED_CASE_END" }

isReservedType(type) == type \in ReservedTypes

\* The tokens the lexer hands over (one representative per category the
\* five passes distinguish).
LexedTokens ==
    { DTok("RESERVED_KEYWORD", "as", "AS"),
      DTok("RESERVED_FUNCTION_NAME", "count", "COUNT"),
      DTok("RESERVED_DATA_TYPE", "int", "INT"),
      DTok("IDENTIFIER", "x", "x"),
      DTok("PROPERTY_ACCESS_OPERATOR", ".", "."),
      DTok("OPEN_PAREN", "(", "("),
      DTok("OPEN_PAREN", "[", "["),
      DTok("LINE_COMMENT", "--c", "--c"),
      DTok("BLOCK_COMMENT", "/*c*/", "/*c*/"),
      DTok("STRING", "'s'", "'s'") }

SeqsUpTo(S, n) == UNION { [1..k -> S] : k \in 0..n }

isOpenParen(t) == t.type = "OPEN_PAREN" /\ t.text = "("

isOpenBracket(t) == t.type = "OPEN_PAREN" /\ t.text = "["

isComment(t) == t.type = "BLOCK_COMMENT" \/ t.type = "LINE_COMMENT"

\* tokens[k] of a JavaScript array, for the 1-based position k.
At(tokens, k) == IF k \in 1..Len(tokens) THEN tokens[k] ELSE Undefined

RECURSIVE SkipComments(_, _, _, _)
SkipComments(tokens, index, dir, i) ==
    IF At(tokens, index + i * dir) # Undefined /\ isComment(At(tokens, index + i * dir))
    THEN SkipComments(tokens, index, dir, i + 1)
    ELSE At(tokens, index + i * dir)

nextNonCommentToken(tokens, index, dir) == SkipComments(tokens, index, dir, 1)

prevNonCommentToken(tokens, index) == nextNonCommentToken(tokens, index, -1)

\* propertyNameKeywordToIdent that forgets the following neighbour.
propertyNameKeywordToIdent_PrevOnly(token, i, tokens) ==
    IF isReservedType(token.type)
    THEN LET prevToken == prevNonCommentToken(tokens, i)
         IN  IF prevToken # Undefined /\ prevToken.type = "PROPERTY_ACCESS_OPERATOR"
             THEN [token EXCEPT !.type = "IDENTIFIER", !.text = token.raw]
             ELSE token
    ELSE token

propertyNameKeywordToIdent(token, i, tokens) ==
    IF isReservedType(token.type)
    THEN LET prevToken == prevNonCommentToken(tokens, i)
             nextToken == nextNonCommentToken(tokens, i, 1)
         IN  IF prevToken # Undefined /\ prevToken.type = "PROPERTY_ACCESS_OPERATOR"
             THEN [token EXCEPT !.type = "IDENTIFIER", !.text = token.raw]
             ELSE IF nextToken # Undefined /\ nextToken.type = "PROPERTY_ACCESS_OPERATOR"
                  THEN [token EXCEPT !.type = "IDENTIFIER", !.text = token.raw]
                  ELSE token
    ELSE token

\* funcNameToIdent looking at tokens[i + 1] instead of skipping comments.
funcNameToIdent_NoCommentSkip(token, i, tokens) ==
    IF token.type = "RESERVED_FUNCTION_NAME"
    THEN LET nextToken == At(tokens, i + 1)
         IN  IF nextToken = Undefined \/ ~isOpenParen(nextToken)
             THEN [token EXCEPT !.type = "IDENTIFIER", !.text = token.raw]
             ELSE token
    ELSE token

funcNameToIdent(token, i, tokens) ==
    IF token.type = "RESERVED_FUNCTION_NAME"
    THEN LET nextToken == nextNonCommentToken(tokens, i, 1)
         IN  IF nextToken = Undefined \/ ~isOpenParen(nextToken)
             THEN [token EXCEPT !.type = "IDENTIFIER", !.text = token.raw]
             ELSE token
    ELSE token

\* dataTypeToParameterizedDataType looking at tokens[i + 1] only.
dataTypeToParameterizedDataType_NoCommentSkip(token, i, tokens) ==
    IF token.type = "RESERVED_DATA_TYPE"
    THEN LET nextToken == At(tokens, i + 1)
         IN  IF nextToken # Undefined /\ isOpenParen(nextToken)
             THEN [token EXCEPT !.type = "RESERVED_PARAMETERIZED_DATA_TYPE"]
             ELSE token
    ELSE token

dataTypeToParameterizedDataType(token, i, tokens) ==
    IF token.type = "RESERVED_DATA_TYPE"
    THEN LET nextToken == nextNonCommentToken(tokens, i, 1)
         IN  IF nextToken # Undefined /\ isOpenParen(nextToken)
             THEN [token EXCEPT !.type = "RESERVED_PARAMETERIZED_DATA_TYPE"]
             ELSE token
    ELSE token

\* identToArrayIdent looking at tokens[i + 1] only.
identToArrayIdent_NoCommentSkip(token, i, tokens) ==
    IF token.type = "IDENTIFIER"
    THEN LET nextToken == At(tokens, i + 1)
         IN  IF nextToken # Undefined /\ isOpenBracket(nextToken)
             THEN [token EXCEPT !.type = "ARRAY_IDENTIFIER"]
             ELSE token
    ELSE token

identToArrayIdent(token, i, tokens) ==
    IF token.type = "IDENTIFIER"
    THEN LET nextToken == nextNonCommentToken(tokens, i, 1)
         IN  IF nextToken # Undefined /\ isOpenBracket(nextToken)
             THEN [token EXCEPT !.type = "ARRAY_IDENTIFIER"]
             ELSE token
    ELSE token

\* dataTypeToArrayKeyword that also resets the text, as passes 1 and 2 do.
dataTypeToArrayKeyword_ResetsText(token, i, tokens) ==
    IF token.type = "RESERVED_DATA_TYPE"
    THEN LET nextToken == nextNonCommentToken(tokens, i, 1)
         IN  IF nextToken # Undefined /\ isOpenBracket(nextToken)
             THEN [token EXCEPT !.type = "ARRAY_KEYWORD", !.text = token.raw]
             ELSE token
    ELSE token

dataTypeToArrayKeyword(token, i, tokens) ==
    IF token.type = "RESERVED_DATA_TYPE"
    THEN LET nextToken == nextNonCommentToken(tokens, i, 1)
         IN  IF nextToken # Undefined /\ isOpenBracket(nextToken)
             THEN [token EXCEPT !.type = "ARRAY_KEYWORD"]
             ELSE token
    ELSE token

\* One .map() call of the chain in disambiguateTokens: a new array, every
\* callback seeing the array the call runs over.
MapPropertyNameKeywordToIdent ==
    /\ dpass = 0
    /\ stream' = [i \in 1..Len(stream) |-> propertyNameKeywordToIdent(stream[i], i, stream)]
    /\ dpass' = 1
    /\ UNCHANGED <<input, fvars, evars>>

MapFuncNameToIdent ==
    /\ dpass = 1
    /\ stream' = [i \in 1..Len(stream) |-> funcNameToIdent(stream[i], i, stream)]
    /\ dpass' = 2
    /\ UNCHANGED <<input, fvars, evars>>

MapDataTypeToParameterizedDataType ==
    /\ dpass = 2
    /\ stream' = [i \in 1..Len(stream) |-> dataTypeToParameterizedDataType(stream[i], i, stream)]
    /\ dpass' = 3
    /\ UNCHANGED <<input, fvars, evars>>

\* The fourth .map() run over the argument instead of the third pass's array
MapIdentToArrayIdent_OverInput ==
    /\ dpass = 3
    /\ stream' = [i \in 1..Len(input) |-> identToArrayIdent(input[i], i, input)]
    /\ dpass' = 4
    /\ UNCHANGED <<input, fvars, evars>>

MapIdentToArrayIdent ==
    /\ dpass = 3
    /\ stream' = [i \in 1..Len(stream) |-> identToArrayIdent(stream[i], i, stream)]
    /\ dpass' = 4
    /\ UNCHANGED <<input, fvars, evars>>

MapDataTypeToArrayKeyword ==
    /\ dpass = 4
    /\ stream' = [i \in 1..Len(stream) |-> dataTypeToArrayKeyword(stream[i], i, stream)]
    /\ dpass' = 5
    /\ UNCHANGED <<input, fvars, evars>>

InitD ==
    /\ input \in SeqsUpTo(LexedTokens, MaxTokens)
    /\ stream = input
    /\ dpass = 0
    /\ cfg = <<>>
    /\ statements = <<>>
    /\ sidx = 0
    /\ sf = <<>>
    /\ results = <<>>
    /\ pc = "idle"
    /\ partialCfg = <<>>
    /\ FormatterCls = "none"

NextD ==
    \/ MapPropertyNameKeywordToIdent
    \/ MapFuncNameToIdent
    \/ MapDataTypeToParameterizedDataType
    \/ MapIdentToArrayIdent
    \/ MapDataTypeToArrayKeyword

SpecD == InitD /\ [][NextD]_vars

\* The chain with identToArrayIdent run first instead of fourth
disambiguateTokens_ArrayPassFirst(tokens) ==
    LET p1 == [i \in 1..Len(tokens) |-> identToArrayIdent(tokens[i], i, tokens)]
        p2 == [i \in 1..Len(p1) |-> propertyNameKeywordToIdent(p1[i], i, p1)]
        p3 == [i \in 1..Len(p2) |-> funcNameToIdent(p2[i], i, p2)]
        p4 == [i \in 1..Len(p3) |-> dataTypeToParameterizedDataType(p3[i], i, p3)]
    IN  [i \in 1..Len(p4) |-> dataTypeToArrayKeyword(p4[i], i, p4)]

\* The function as a whole: the chain of the five .map() calls, each a new
\* array whose callback is given the token, its position and the array the
\* call runs over.
disambiguateTokens(tokens) ==
    LET p1 == [i \in 1..Len(tokens) |-> propertyNameKeywordToIdent(tokens[i], i, tokens)]
        p2 == [i \in 1..Len(p1) |-> funcNameToIdent(p1[i], i, p1)]
        p3 == [i \in 1..Len(p2) |-> dataTypeToParameterizedDataType(p2[i], i, p2)]
        p4 == [i \in 1..Len(p3) |-> identToArrayIdent(p3[i], i, p3)]
    IN  [i \in 1..Len(p4) |-> dataTypeToArrayKeyword(p4[i], i, p4)]

(***************************************************************************)
(* Properties of disambiguateTokens                                        *)
(***************************************************************************)

\* The nearest non-comment token after position i exists and satisfies P.
FollowedBy(tokens, i, P(_)) ==
    \E j \in (i + 1)..Len(tokens) :
        /\ P(tokens[j])
        /\ \A k \in (i + 1)..(j - 1) : tokens[k].type \in {"LINE_COMMENT", "BLOCK_COMMENT"}

\* The nearest non-comment token before position i exists and satisfies P.
PrecededBy(tokens, i, P(_)) ==
    \E j \in 1..(i - 1) :
        /\ P(tokens[j])
        /\ \A k \in (j + 1)..(i - 1) : tokens[k].type \in {"LINE_COMMENT", "BLOCK_COMMENT"}

LParen(t) == t.type = "OPEN_PAREN" /\ t.text = "("

LBracket(t) == t.type = "OPEN_PAREN" /\ t.text = "["

Dot(t) == t.type = "PROPERTY_ACCESS_OPERATOR"

NextToDot(tokens, i) == PrecededBy(tokens, i, Dot) \/ FollowedBy(tokens, i, Dot)

Disambiguated == dpass = 5

\* C6 (as claimed): in the result every RESERVED_FUNCTION_NAME has "(" as
\* its nearest following non-comment token; an input RESERVED_FUNCTION_NAME
\* stays one when "(" follows it (comments skipped) and becomes IDENTIFIER
\* in every other case.
C6_AsClaimed ==
    Disambiguated =>
        \A i \in 1..Len(stream) :
            /\ stream[i].type = "RESERVED_FUNCTION_NAME" => FollowedBy(stream, i, LParen)
            /\ input[i].type = "RESERVED_FUNCTION_NAME" =>
                   stream[i].type = IF FollowedBy(input, i, LParen)
                                    THEN "RESERVED_FUNCTION_NAME"
                                    ELSE "IDENTIFIER"

\* C6 (amended): in the result every RESERVED_FUNCTION_NAME has "(" as its
\* nearest following non-comment token; an input RESERVED_FUNCTION_NAME
\* stays one exactly when "(" follows it (comments skipped) and no
\* property-access operator is its nearest non-comment neighbour; otherwise
\* it gets its raw text and becomes ARRAY_IDENTIFIER when "[" follows it
\* and IDENTIFIER in every other case.
C6_FunctionNameFollowedByParen ==
    Disambiguated =>
        \A i \in 1..Len(stream) :
            /\ stream[i].type = "RESERVED_FUNCTION_NAME" => FollowedBy(stream, i, LParen)
            /\ input[i].type = "RESERVED_FUNCTION_NAME" =>
                   IF FollowedBy(input, i, LParen) /\ ~NextToDot(input, i)
                   THEN stream[i] = input[i]
                   ELSE /\ stream[i].text = input[i].raw
                        /\ stream[i].type = IF FollowedBy(input, i, LBracket)
                                            THEN "ARRAY_IDENTIFIER"
                                            ELSE "IDENTIFIER"

\* A function name kept across a comment, beside one turned into IDENTIFIER.
C6_Witness ==
    /\ Disambiguated
    /\ \E i, j \in 1..Len(stream) :
        /\ input[i].type = "RESERVED_FUNCTION_NAME"
        /\ stream[i].type = "IDENTIFIER"
        /\ input[j].type = "RESERVED_FUNCTION_NAME"
        /\ stream[j].type = "RESERVED_FUNCTION_NAME"
        /\ j + 1 <= Len(stream)
        /\ stream[j + 1].type = "LINE_COMMENT"

\* C7 (as claimed): after the passes no RESERVED_* token has a property-access
\* operator as nearest non-comment neighbour, and every input RESERVED_* token
\* that had one is an IDENTIFIER carrying its raw text.
C7_AsClaimed ==
    /\ dpass >= 1 =>
        \A i \in 1..Len(stream) :
            isReservedType(stream[i].type) => ~NextToDot(stream, i)
    /\ Disambiguated =>
        \A i \in 1..Len(stream) :
            isReservedType(input[i].type) /\ NextToDot(input, i) =>
                stream[i].type = "IDENTIFIER" /\ stream[i].text = input[i].raw

\* C7 (amended): after pass 1 and after every later pass no RESERVED_* token
\* has a property-access operator as nearest non-comment neighbour; every
\* input RESERVED_* token that had one carries its raw text and is an
\* IDENTIFIER, or an ARRAY_IDENTIFIER when "[" is its nearest following
\* non-comment token.
C7_NoReservedNextToPropertyAccess ==
    /\ dpass >= 1 =>
        \A i \in 1..Len(stream) :
            isReservedType(stream[i].type) => ~NextToDot(stream, i)
    /\ Disambiguated =>
        \A i \in 1..Len(stream) :
            isReservedType(input[i].type) /\ NextToDot(input, i) =>
                /\ stream[i].text = input[i].raw
                /\ stream[i].type = IF FollowedBy(input, i, LBracket)
                                    THEN "ARRAY_IDENTIFIER"
                                    ELSE "IDENTIFIER"

\* A reserved token before a "." (a comment between) and one after a ".".
C7_Witness ==
    /\ Disambiguated
    /\ \E i, j \in 1..Len(stream) :
        /\ isReservedType(input[i].type)
        /\ FollowedBy(input, i, Dot)
        /\ isComment(input[i + 1])
        /\ stream[i].type = "IDENTIFIER"
        /\ isReservedType(input[j].type)
        /\ PrecededBy(input, j, Dot)
        /\ stream[j].type = "IDENTIFIER"

\* C8: in the result every RESERVED_PARAMETERIZED_DATA_TYPE has "(" as its
\* nearest following non-comment token; an input RESERVED_DATA_TYPE leaves as
\* RESERVED_PARAMETERIZED_DATA_TYPE exactly when it is not next to a
\* property-access operator and "(" follows it; no RESERVED_DATA_TYPE
\* followed by "(" remains.
C8_ParameterizedDataType ==
    Disambiguated =>
        \A i \in 1..Len(stream) :
            /\ stream[i].type = "RESERVED_PARAMETERIZED_DATA_TYPE" =>
                   FollowedBy(stream, i, LParen)
            /\ input[i].type = "RESERVED_DATA_TYPE" =>
                   (stream[i].type = "RESERVED_PARAMETERIZED_DATA_TYPE"
                        <=> (~NextToDot(input, i) /\ FollowedBy(input, i, LParen)))
            /\ ~(stream[i].type = "RESERVED_DATA_TYPE" /\ FollowedBy(stream, i, LParen))

\* A data type made parameterized across a comment, after a data type that
\* is not followed by "(" and stays one.
C8_Witness ==
    /\ Disambiguated
    /\ \E i, j \in 1..Len(stream) :
        /\ input[i].type = "RESERVED_DATA_TYPE"
        /\ stream[i].type = "RESERVED_PARAMETERIZED_DATA_TYPE"
        /\ isComment(stream[i + 1])
        /\ input[j].type = "RESERVED_DATA_TYPE"
        /\ stream[j].type = "RESERVED_DATA_TYPE"

\* C9: in the result every ARRAY_IDENTIFIER and ARRAY_KEYWORD has "[" as its
\* nearest following non-comment token, and no IDENTIFIER or
\* RESERVED_DATA_TYPE has.
C9_ArrayTokens ==
    Disambiguated =>
        \A i \in 1..Len(stream) :
            /\ stream[i].type \in {"ARRAY_IDENTIFIER", "ARRAY_KEYWORD"} =>
                   FollowedBy(stream, i, LBracket)
            /\ stream[i].type \in {"IDENTIFIER", "RESERVED_DATA_TYPE"} =>
                   ~FollowedBy(stream, i, LBracket)

\* An identifier and a data type each made an array token.
C9_Witness ==
    /\ Disambiguated
    /\ \E i, j \in 1..Len(stream) :
        /\ input[i].type = "IDENTIFIER"
        /\ stream[i].type = "ARRAY_IDENTIFIER"
        /\ input[j].type = "RESERVED_DATA_TYPE"
        /\ stream[j].type = "ARRAY_KEYWORD"

\* Categories no pass matches.
Unmatched(type) == ~isReservedType(type) /\ type # "IDENTIFIER"

\* What one .map() pass may change at one position: nothing, the category,
\* or the category and the text of a token it turns into IDENTIFIER.
C10_PassFrame ==
    /\ input' = input
    /\ Len(stream') = Len(stream)
    /\ \A i \in 1..Len(stream) :
        \/ stream'[i] = stream[i]
        \/ stream'[i] = [stream[i] EXCEPT !.type = stream'[i].type]
        \/ /\ stream'[i].type = "IDENTIFIER"
           /\ stream'[i] = [stream[i] EXCEPT !.type = "IDENTIFIER", !.text = stream[i].raw]

\* C10: disambiguateTokens is a position-preserving rewrite: the array keeps
\* its length, every token no rule matches is returned unchanged, a pass
\* changes nothing of a token but its category and, when it turns the token
\* into IDENTIFIER, its text, and the input array is never modified.
C10_PositionPreservingRewrite ==
    /\ [](/\ Len(stream) = Len(input)
          /\ \A i \in 1..Len(input) :
                /\ stream[i].raw = input[i].raw
                /\ Unmatched(input[i].type) => stream[i] = input[i])
    /\ [][C10_PassFrame]_vars

\* A result with a token whose text changed, one whose category alone
\* changed, and one no rule matches.
C10_Witness ==
    /\ Disambiguated
    /\ \E i, j, k \in 1..Len(stream) :
        /\ stream[i].text # input[i].text
        /\ stream[j].type # input[j].type
        /\ stream[j].text = input[j].text
        /\ Unmatched(input[k].type)

(***************************************************************************)
(* Part 2.  Strings                                                        *)
(***************************************************************************)

CharAt(s, i) == SubSeq(s, i, i)

isSpaceOrTab(c) == c = " " \/ c = "\t"

isWhitespace(c) == c = " " \/ c = "\t" \/ c = "\n"

RECURSIVE repeat(_, _)
repeat(s, n) == IF n <= 0 THEN "" ELSE s \o repeat(s, n - 1)

\* s.replace(/[ \t]+$/u, '')
RECURSIVE trimSpacesEnd(_)
trimSpacesEnd(s) ==
    IF Len(s) > 0 /\ isSpaceOrTab(CharAt(s, Len(s)))
    THEN trimSpacesEnd(SubSeq(s, 1, Len(s) - 1))
    ELSE s

\* s.replace(/^[ \t]+/u, '')
RECURSIVE trimSpacesStart(_)
trimSpacesStart(s) ==
    IF Len(s) > 0 /\ isSpaceOrTab(CharAt(s, 1))
    THEN trimSpacesStart(SubSeq(s, 2, Len(s)))
    ELSE s

\* s.trimEnd()
RECURSIVE trimEnd(_)
trimEnd(s) ==
    IF Len(s) > 0 /\ isWhitespace(CharAt(s, Len(s)))
    THEN trimEnd(SubSeq(s, 1, Len(s) - 1))
    ELSE s

\* s.trimStart()
RECURSIVE trimStart(_)
trimStart(s) ==
    IF Len(s) > 0 /\ isWhitespace(CharAt(s, 1))
    THEN trimStart(SubSeq(s, 2, Len(s)))
    ELSE s

LowerLetters == "abcdefghijklmnopqrstuvwxyz"

UpperLetters == "ABCDEFGHIJKLMNOPQRSTUVWXYZ"

RECURSIVE indexOf(_, _, _)
indexOf(letters, c, i) ==
    IF i > Len(letters) THEN 0
    ELSE IF CharAt(letters, i) = c THEN i ELSE indexOf(letters, c, i + 1)

charToUpperCase(c) ==
    LET k == indexOf(LowerLetters, c, 1) IN IF k = 0 THEN c ELSE CharAt(UpperLetters, k)

charToLowerCase(c) ==
    LET k == indexOf(UpperLetters, c, 1) IN IF k = 0 THEN c ELSE CharAt(LowerLetters, k)

RECURSIVE toUpperCase(_)
toUpperCase(s) ==
    IF s = "" THEN "" ELSE charToUpperCase(Head(s)) \o toUpperCase(Tail(s))

RECURSIVE toLowerCase(_)
toLowerCase(s) ==
    IF s = "" THEN "" ELSE charToLowerCase(Head(s)) \o toLowerCase(Tail(s))

\* utils.equalizeWhitespace: s.replace(/\s+/gu, ' ')
RECURSIVE equalizeWhitespace(_)
equalizeWhitespace(s) ==
    IF s = "" THEN ""
    ELSE IF isWhitespace(Head(s))
         THEN " " \o equalizeWhitespace(trimStart(s))
         ELSE Head(s) \o equalizeWhitespace(Tail(s))

(***************************************************************************)
(* Part 3.  Tokens and options of the statement formatter                  *)
(***************************************************************************)

\* Token of './token': { type, text, value, whitespaceBefore }.
FTok(type, text, value, whitespaceBefore) ==
    [type |-> type, text |-> text, value |-> value, whitespaceBefore |-> whitespaceBefore]

EOF_TOKEN == FTok("EOF", "", "", "")

isReserved(token) == token.type \in ReservedTypes

isCommand(token) == token.type = "RESERVED_COMMAND"

isTokenAS(token) == token.type = "RESERVED_KEYWORD" /\ token.value = "AS"

isTokenAND(token) == token.type = "RESERVED_LOGICAL_OPERATOR" /\ token.value = "AND"

isTokenBETWEEN(token) == token.type = "RESERVED_KEYWORD" /\ token.value = "BETWEEN"

isTokenCASE(token) == token.type = "RESERVED_CASE_START" /\ token.value = "CASE"

isTokenLIMIT(token) == token.type = "RESERVED_COMMAND" /\ token.value = "LIMIT"

isTokenSELECT(token) == token.type = "RESERVED_COMMAND" /\ token.value = "SELECT"

\* The defaults of the entry function.
defaultOptions ==
    [ language |-> "sql",
      tabWidth |-> 2,
      useTabs |-> FALSE,
      keywordCase |-> "preserve",
      indentStyle |-> "standard",
      logicalOperatorNewline |-> "before",
      expressionWidth |-> 50,
      linesBetweenQueries |-> 1,
      denseOperators |-> FALSE,
      newlineBeforeSemicolon |-> FALSE,
      \* options the defaults leave out (undefined)
      multilineLists |-> "undefined",
      multilineListsN |-> 0,
      aliasAs |-> "undefined",
      newlineBeforeOpenParen |-> FALSE,
      newlineBeforeCloseParen |-> FALSE ]

isTabularStyle(c) == c.indentStyle = "tabularLeft" \/ c.indentStyle = "tabularRight"

indentString(c) == IF c.useTabs THEN "\t" ELSE repeat(" ", c.tabWidth)

\* Column the tabular styles pad a keyword to.
TabularWidth == 10

\* Marker the tabular styles pad with until the final sweep.
TabularPlaceholder == "~"

\* tabularStyle.toTabularToken: the keyword padded with markers.
toTabularToken(token, indentStyle) ==
    IF indentStyle = "standard" THEN token
    ELSE LET pad == repeat(TabularPlaceholder, TabularWidth - Len(token.text))
         IN  IF indentStyle = "tabularLeft"
             THEN [token EXCEPT !.text = token.text \o pad]
             ELSE [token EXCEPT !.text = pad \o token.text]

\* tabularStyle.replaceTabularPlaceholders: markers become spaces.
RECURSIVE replaceTabularPlaceholders(_)
replaceTabularPlaceholders(s) ==
    IF s = "" THEN ""
    ELSE (IF Head(s) = TabularPlaceholder THEN " " ELSE Head(s))
             \o replaceTabularPlaceholders(Tail(s))

(***************************************************************************)
(* Part 4.  The collaborators of StatementFormatter                        *)
(***************************************************************************)

\* this.tokens[k] for the JavaScript index k; undefined outside the array.
JsUndefined == FTok("undefined", "", "", "")

TokensAt(tokens, k) == IF k >= 0 /\ k < Len(tokens) THEN tokens[k + 1] ELSE JsUndefined

\* The fields of a StatementFormatter with those of its Indentation
\* (topLevel, blockLevel), InlineBlock (inlineLevel) and StringBuilder (query).
\* `thrown` records an exception leaving format(); `log` records, for every
\* text appended, the token being formatted and where the text starts.
NewStatementFormatter ==
    [ tokens |-> <<>>,
      index |-> -1,
      currentNewline |-> TRUE,
      previousReservedToken |-> EOF_TOKEN,
      previousCommandToken |-> EOF_TOKEN,
      topLevel |-> 0,
      blockLevel |-> 0,
      inlineLevel |-> 0,
      query |-> "",
      thrown |-> FALSE,
      log |-> <<>> ]

\* ---- Indentation ----
getSingleIndent == indentString(cfg)

getIndent(f) == repeat(indentString(cfg), f.topLevel + f.blockLevel)

increaseTopLevel(f) == [f EXCEPT !.topLevel = @ + 1]

increaseBlockLevel(f) == [f EXCEPT !.blockLevel = @ + 1]

decreaseTopLevel(f) == [f EXCEPT !.topLevel = IF @ > 0 THEN @ - 1 ELSE 0]

decreaseBlockLevel(f) == [f EXCEPT !.blockLevel = IF @ > 0 THEN @ - 1 ELSE 0]

\* ---- StringBuilder ----
isBlank(s) == trimEnd(s) = ""

atLineStart(q) ==
    LET t == trimSpacesEnd(q) IN t = "" \/ CharAt(t, Len(t)) = "\n"

Put(f, prefix, s, suffix) ==
    [f EXCEPT !.query = prefix \o s \o suffix,
              !.log = IF isBlank(s) THEN @
                      ELSE Append(@, [index |-> f.index, start |-> Len(prefix), text |-> s,
                                       depth |-> f.topLevel + f.blockLevel])]

addWithSpaceBefore(f, s) ==
    IF atLineStart(f.query)
    THEN Put(f, f.query, s, "")
    ELSE Put(f, trimSpacesEnd(f.query) \o " ", s, "")

addWithSpaces(f, s) ==
    IF atLineStart(f.query)
    THEN Put(f, f.query, s, " ")
    ELSE Put(f, trimSpacesEnd(f.query) \o " ", s, " ")

addWithSpaceAfter(f, s) == Put(f, trimSpacesEnd(f.query), s, " ")

addWithoutSpaces(f, s) == Put(f, trimSpacesEnd(f.query), s, "")

addWithoutNewlinesBefore(f, s) == Put(f, trimEnd(f.query) \o " ", s, "")

addNewline(f) ==
    LET q == trimSpacesEnd(f.query)
        line == IF q # "" /\ CharAt(q, Len(q)) = "\n" THEN q ELSE q \o "\n"
    IN  [f EXCEPT !.query = line \o getIndent(f)]

\* ---- InlineBlock ----
isForbiddenToken(token) ==
    token.type \in { "RESERVED_COMMAND", "RESERVED_BINARY_COMMAND",
                     "BLOCK_COMMENT", "RESERVED_CASE_START" }

\* Scan from the "(" at position i (1-based) to its matching ")".
RECURSIVE inlineScan(_, _, _, _)
inlineScan(tokens, i, level, length) ==
    IF i > Len(tokens) THEN FALSE
    ELSE LET token == tokens[i]
             width == length + Len(token.value) + (IF token.value = "," THEN 1 ELSE 0)
         IN  IF isForbiddenToken(token) THEN FALSE
             ELSE IF width > cfg.expressionWidth THEN FALSE
             ELSE IF token.type = "BLOCK_START"
                  THEN inlineScan(tokens, i + 1, level + 1, width)
             ELSE IF token.type = "BLOCK_END"
                  THEN (IF level - 1 = 0 THEN TRUE
                        ELSE inlineScan(tokens, i + 1, level - 1, width))
             ELSE inlineScan(tokens, i + 1, level, width)

isInlineBlock(tokens, index) == inlineScan(tokens, index + 1, 0, 0)

beginIfPossible(f) ==
    IF f.inlineLevel = 0 /\ isInlineBlock(f.tokens, f.index)
    THEN [f EXCEPT !.inlineLevel = 1]
    ELSE IF f.inlineLevel > 0
         THEN [f EXCEPT !.inlineLevel = @ + 1]
         ELSE [f EXCEPT !.inlineLevel = 0]

inlineBlockEnd(f) == [f EXCEPT !.inlineLevel = @ - 1]

inlineBlockIsActive(f) == f.inlineLevel > 0

\* ---- Params ----
\* No params table is supplied: a placeholder is written as it stands.
paramsGet(token) == token.value

(***************************************************************************)
(* Part 5.  StatementFormatter                                             *)
(***************************************************************************)

throw(f) == [f EXCEPT !.thrown = TRUE]

\* this.tokens[this.index - n] without the EOF_TOKEN fallback
tokenLookBehind_NoFallback(f, n) == TokensAt(f.tokens, f.index - n)

\* Fetches nth previous token from the token stream
tokenLookBehind(f, n) ==
    LET t == TokensAt(f.tokens, f.index - n) IN IF t = JsUndefined THEN EOF_TOKEN ELSE t

\* Fetches nth next token from the token stream
tokenLookAhead(f, n) ==
    LET t == TokensAt(f.tokens, f.index + n) IN IF t = JsUndefined THEN EOF_TOKEN ELSE t

getPreviousReservedToken(f) == f.previousReservedToken

isWithinSelect(f) == isTokenSELECT(f.previousCommandToken)

\* Converts token to string, uppercasing if enabled
show(token) ==
    IF isReserved(token)
    THEN CASE cfg.keywordCase = "preserve" -> equalizeWhitespace(token.text)
           [] cfg.keywordCase = "upper" -> equalizeWhitespace(toUpperCase(token.text))
           [] cfg.keywordCase = "lower" -> equalizeWhitespace(toLowerCase(token.text))
    ELSE token.value

\* ---- AliasAs and AsTokenFactory ----
isAliasToken(token) ==
    token.type \in {"IDENTIFIER", "QUOTED_IDENTIFIER", "ARRAY_IDENTIFIER"}

endsSelectListElement(token) ==
    \/ token.type \in {"IDENTIFIER", "QUOTED_IDENTIFIER", "BLOCK_END", "NUMBER", "STRING"}
    \/ token.type = "OPERATOR" /\ token.value = "*"

RECURSIVE lookPastComments(_, _, _)
lookPastComments(f, k, dir) ==
    LET t == TokensAt(f.tokens, k)
    IN  IF t = JsUndefined THEN EOF_TOKEN
        ELSE IF t.type \in {"LINE_COMMENT", "BLOCK_COMMENT"}
             THEN lookPastComments(f, k + dir, dir)
             ELSE t

shouldAddBefore(f, token) ==
    /\ cfg.aliasAs = "always"
    /\ isAliasToken(token)
    /\ endsSelectListElement(lookPastComments(f, f.index - 1, -1))
    /\ LET next == tokenLookAhead(f, 1)
       IN  ~(isTokenAS(next) \/ next.value = "," \/ next.type = "OPERATOR" \/ isCommand(next))

shouldAddAfter(f) ==
    /\ cfg.aliasAs = "always"
    /\ isAliasToken(tokenLookBehind(f, 0))
    /\ isAliasToken(tokenLookAhead(f, 1))

shouldRemove == cfg.aliasAs = "never"

isLowerCased(token) == token.text = toLowerCase(token.text) /\ token.text # toUpperCase(token.text)

\* The synthesized AS, cased like the majority of the statement's reserved tokens.
asToken(f) ==
    LET reserved == { k \in 1..Len(f.tokens) : isReserved(f.tokens[k]) }
        lower == { k \in reserved : isLowerCased(f.tokens[k]) }
    IN  FTok("RESERVED_KEYWORD",
             IF 2 * Cardinality(lower) > Cardinality(reserved) THEN "as" ELSE "AS",
             "AS", " ")

\* ---- the multiline decision ----
RECURSIVE findIndexCommandOrEnd(_, _)
findIndexCommandOrEnd(tail, k) ==
    IF k > Len(tail) THEN -1
    ELSE IF isCommand(tail[k]) \/ tail[k].value = ";" THEN k - 1
         ELSE findIndexCommandOrEnd(tail, k + 1)

\* Array.prototype.slice(0, end) for an end that may be negative.
slice0(a, end) ==
    IF end >= 0
    THEN SubSeq(a, 1, IF end > Len(a) THEN Len(a) ELSE end)
    ELSE SubSeq(a, 1, IF Len(a) + end < 0 THEN 0 ELSE Len(a) + end)

\* get all tokens between current token and next Reserved Command or query end
tokensUntilNextCommandOrQueryEnd(f) ==
    LET tail == SubSeq(f.tokens, f.index + 2, Len(f.tokens))
    IN  IF Len(tail) # 0
        THEN slice0(tail, findIndexCommandOrEnd(tail, 1))
        ELSE tail

RECURSIVE joinedValuesLength(_)
joinedValuesLength(tokens) ==
    IF tokens = <<>> THEN 0
    ELSE Len(IF Head(tokens).value = "," THEN Head(tokens).value \o " " ELSE Head(tokens).value)
             + joinedValuesLength(Tail(tokens))

inlineWidth(token, tokens) ==
    Len(token.whitespaceBefore) + Len(token.value) + 1 + joinedValuesLength(tokens)

RECURSIVE countClausesFrom(_, _, _)
countClausesFrom(tokens, count, openBlocks) ==
    IF tokens = <<>> THEN count
    ELSE LET t == Head(tokens)
             c == IF t.value = "," /\ openBlocks = 0 THEN count + 1 ELSE count
             o == IF t.type = "BLOCK_START" THEN openBlocks + 1
                  ELSE IF t.type = "BLOCK_END" THEN openBlocks - 1 ELSE openBlocks
         IN  countClausesFrom(Tail(tokens), c, o)

countClauses(tokens) == countClausesFrom(tokens, 1, 0)

\* Checks if a newline should currently be inserted
checkNewline(f, token) ==
    LET nextTokens == tokensUntilNextCommandOrQueryEnd(f)
    IN  IF isWithinSelect(f) /\ \E k \in 1..Len(nextTokens) : isTokenCASE(nextTokens[k])
        THEN TRUE
        ELSE CASE cfg.multilineLists = "always" -> TRUE
               [] cfg.multilineLists = "avoid" -> FALSE
               [] cfg.multilineLists = "expressionWidth" ->
                      inlineWidth(token, nextTokens) > cfg.expressionWidth
               [] cfg.multilineLists = "number" ->
                      \/ countClauses(nextTokens) > cfg.multilineListsN
                      \/ inlineWidth(token, nextTokens) > cfg.expressionWidth
               \* `count > undefined` is false
               [] OTHER -> inlineWidth(token, nextTokens) > cfg.expressionWidth

\* ---- the handlers ----
formatWord(f, token) ==
    LET f1 == IF shouldAddBefore(f, token) THEN addWithSpaces(f, show(asToken(f))) ELSE f
        f2 == addWithSpaces(f1, show(token))
    IN  IF shouldAddAfter(f2) THEN addWithSpaces(f2, show(asToken(f2))) ELSE f2

formatLineComment(f, token) == addNewline(addWithSpaceBefore(f, show(token)))

\* comment.replace(/\n[ \t]*/gu, '\n' + indent + ' ')
RECURSIVE replaceLineStarts(_, _)
replaceLineStarts(comment, indent) ==
    IF comment = "" THEN ""
    ELSE IF Head(comment) = "\n"
         THEN "\n" \o indent \o " "
                  \o replaceLineStarts(trimSpacesStart(Tail(comment)), indent)
         ELSE Head(comment) \o replaceLineStarts(Tail(comment), indent)

\* comment.replace(/\n[ \t]*/gu, indent + ' '): the line break is lost
RECURSIVE joinLines(_, _)
joinLines(comment, indent) ==
    IF comment = "" THEN ""
    ELSE IF Head(comment) = "\n"
         THEN indent \o " " \o joinLines(trimSpacesStart(Tail(comment)), indent)
         ELSE Head(comment) \o joinLines(Tail(comment), indent)

indentComment_JoinsLines(f, comment) == joinLines(comment, getIndent(f))

\* Aligns comment to current indentation level
indentComment(f, comment) == replaceLineStarts(comment, getIndent(f))

formatBlockComment(f, token) ==
    LET f1 == addNewline(f)
        f2 == addWithSpaceBefore(f1, indentComment(f1, token.value))
    IN  addNewline(f2)

\* Formats a Reserved Command onto query, increasing indentation level where necessary
\* formatCommand that does not decrease the top level first
formatCommand_NoDecrease(f, token) ==
    LET f2 == addNewline(f)
        f3 == IF isTabularStyle(cfg)
              THEN (IF tokenLookAhead(f2, 1).value # "(" THEN increaseTopLevel(f2) ELSE f2)
              ELSE increaseTopLevel(f2)
        f4 == addWithSpaceBefore(f3, show(token))
    IN  IF f4.currentNewline /\ ~isTabularStyle(cfg)
        THEN addNewline(f4)
        ELSE addWithSpaceBefore(f4, " ")

formatCommand(f, token) ==
    LET f1 == decreaseTopLevel(f)
        f2 == addNewline(f1)
        f3 == IF isTabularStyle(cfg)
              THEN (IF tokenLookAhead(f2, 1).value # "(" THEN increaseTopLevel(f2) ELSE f2)
              ELSE increaseTopLevel(f2)
        f4 == addWithSpaceBefore(f3, show(token))
    IN  IF isTabularStyle(cfg) /\ tokenLookAhead(f, 1) = JsUndefined
        THEN throw(f2)   \* reading .value of undefined
        ELSE IF f4.currentNewline /\ ~isTabularStyle(cfg)
             THEN addNewline(f4)
             ELSE addWithSpaceBefore(f4, " ")

\* /JOIN/i.test(value)
RECURSIVE containsJOIN(_)
containsJOIN(value) ==
    IF Len(value) < 4 THEN FALSE
    ELSE toUpperCase(SubSeq(value, 1, 4)) = "JOIN" \/ containsJOIN(Tail(value))

\* Formats a Reserved Binary Command onto query, joining neighbouring tokens
\* formatBinaryCommand that decreases the top level for a JOIN as well
formatBinaryCommand_JoinDecreases(f, token) ==
    LET isJoin == containsJOIN(token.value)
        f2 == addNewline(decreaseTopLevel(f))
        f3 == addWithSpaceBefore(f2, show(token))
    IN  IF isJoin THEN addWithSpaceBefore(f3, " ") ELSE addNewline(f3)

\* Formats a Reserved Binary Command onto query, joining neighbouring tokens
formatBinaryCommand(f, token) ==
    LET isJoin == containsJOIN(token.value)
        f1 == IF ~isJoin \/ isTabularStyle(cfg) THEN decreaseTopLevel(f) ELSE f
        f2 == addNewline(f1)
        f3 == addWithSpaceBefore(f2, show(token))
    IN  IF isJoin THEN addWithSpaceBefore(f3, " ") ELSE addNewline(f3)

\* Formats a Reserved Keyword onto query, skipping AS if disabled
formatKeyword(f, token) ==
    IF isTokenAS(token) /\ shouldRemove THEN f ELSE addWithSpaces(f, show(token))

formatDependentClause(f, token) == addWithSpaces(addNewline(f), show(token))

formatJoinCondition(f, token) == addWithSpaces(f, show(token))

\* formatComma without the LIMIT exception
formatComma_IgnoresLimit(f, token) ==
    LET f1 == addWithSpaceAfter(f, show(token))
    IN  IF inlineBlockIsActive(f1) THEN f1
        ELSE IF f1.currentNewline THEN addNewline(f1)
        ELSE f1

\* Formats a comma Operator onto query, ending line unless in an Inline Block
formatComma(f, token) ==
    LET f1 == addWithSpaceAfter(f, show(token))
    IN  IF inlineBlockIsActive(f1) THEN f1
        ELSE IF isTokenLIMIT(getPreviousReservedToken(f1)) THEN f1
        ELSE IF f1.currentNewline THEN addNewline(f1)
        ELSE f1

formatQuerySeparator(f, token) ==
    LET f1 == IF cfg.newlineBeforeSemicolon THEN addNewline(f) ELSE f
    IN  addWithoutSpaces(f1, show(token))

\* Formats an Operator onto query, following rules for specific characters
formatOperator(f, token) ==
    IF token.value = "," THEN formatComma(f, token)
    ELSE IF token.value = ";" THEN formatQuerySeparator(f, token)
    ELSE IF token.value \in {"$", "["} THEN addWithSpaceBefore(f, show(token))
    ELSE IF token.value \in {":", "]"} THEN addWithSpaceAfter(f, show(token))
    \* (the backtick operator of this list is not among the modelled tokens)
    ELSE IF token.value \in {".", "{", "}"} THEN addWithoutSpaces(f, show(token))
    ELSE IF cfg.denseOperators /\ tokenLookBehind(f, 1) = JsUndefined
         THEN throw(f)   \* reading .type of undefined
    ELSE IF cfg.denseOperators /\ tokenLookBehind(f, 1).type # "RESERVED_COMMAND"
         THEN addWithoutSpaces(f, show(token))
         ELSE addWithSpaces(f, show(token))

\* The BETWEEN test made on the token directly before AND
formatLogicalOperator_LooksOneBehind(f, token) ==
    IF isTokenAND(token) /\ isTokenBETWEEN(tokenLookBehind(f, 1))
    THEN addWithSpaces(f, show(token))
    ELSE LET f1 == IF isTabularStyle(cfg) THEN decreaseTopLevel(f) ELSE f
         IN  IF cfg.logicalOperatorNewline = "before"
             THEN addWithSpaces(IF f1.currentNewline THEN addNewline(f1) ELSE f1, show(token))
             ELSE LET f2 == addWithSpaceBefore(f1, show(token))
                  IN  IF f2.currentNewline THEN addNewline(f2) ELSE f2

\* Formats a Logical Operator onto query, joining boolean conditions
\* formatLogicalOperator that always places the newline before the operator
formatLogicalOperator_AlwaysBefore(f, token) ==
    IF isTokenAND(token) /\ isTokenBETWEEN(tokenLookBehind(f, 2))
    THEN addWithSpaces(f, show(token))
    ELSE LET f1 == IF isTabularStyle(cfg) THEN decreaseTopLevel(f) ELSE f
         IN  addWithSpaces(IF f1.currentNewline THEN addNewline(f1) ELSE f1, show(token))

\* Formats a Logical Operator onto query, joining boolean conditions
formatLogicalOperator(f, token) ==
    IF isTokenAND(token) /\ tokenLookBehind(f, 2) = JsUndefined
    THEN throw(f)   \* reading .type of undefined
    ELSE IF isTokenAND(token) /\ isTokenBETWEEN(tokenLookBehind(f, 2))
    THEN addWithSpaces(f, show(token))
    ELSE LET f1 == IF isTabularStyle(cfg) THEN decreaseTopLevel(f) ELSE f
         IN  IF cfg.logicalOperatorNewline = "before"
             THEN addWithSpaces(IF f1.currentNewline THEN addNewline(f1) ELSE f1, show(token))
             ELSE LET f2 == addWithSpaceBefore(f1, show(token))
                  IN  IF f2.currentNewline THEN addNewline(f2) ELSE f2

\* The whitespace before the paren in the source is not looked at
formatBlockStart_IgnoresWhitespaceBefore(f, token) ==
    LET preserveWhitespaceFor == {"BLOCK_START", "LINE_COMMENT", "OPERATOR"}
        f1 == IF tokenLookBehind(f, 1).type \notin preserveWhitespaceFor
              THEN addWithoutSpaces(f, show(token))
              ELSE IF ~cfg.newlineBeforeOpenParen
                   THEN addWithoutNewlinesBefore(f, show(token))
                   ELSE addWithSpaceBefore(f, show(token))
        f2 == beginIfPossible(f1)
    IN  IF ~inlineBlockIsActive(f2)
        THEN addNewline(increaseBlockLevel(f2))
        ELSE f2

formatBlockStart(f, token) ==
    LET preserveWhitespaceFor == {"BLOCK_START", "LINE_COMMENT", "OPERATOR"}
        f1 == IF /\ Len(token.whitespaceBefore) = 0
                 /\ tokenLookBehind(f, 1).type \notin preserveWhitespaceFor
              THEN addWithoutSpaces(f, show(token))
              ELSE IF ~cfg.newlineBeforeOpenParen
                   THEN addWithoutNewlinesBefore(f, show(token))
                   ELSE addWithSpaceBefore(f, show(token))
        f2 == beginIfPossible(f1)
    IN  IF Len(token.whitespaceBefore) = 0 /\ tokenLookBehind(f, 1) = JsUndefined
        THEN throw(f)   \* reading .type of undefined
        ELSE IF ~inlineBlockIsActive(f2)
             THEN addNewline(increaseBlockLevel(f2))
             ELSE f2

formatMultilineBlockEnd(f, token) ==
    LET f1 == decreaseBlockLevel(f)
        f2 == IF isTabularStyle(cfg)
              THEN addWithSpaceBefore(addNewline(f1), getSingleIndent)
              ELSE IF cfg.newlineBeforeCloseParen
                   THEN addNewline(f1)
                   ELSE addWithoutNewlinesBefore(f1, "")
    IN  addWithSpaces(f2, show(token))

\* formatBlockEnd that closes every block as a multi-line block
formatBlockEnd_AlwaysMultiline(f, token) == formatMultilineBlockEnd(f, token)

formatBlockEnd(f, token) ==
    IF inlineBlockIsActive(f)
    THEN addWithSpaceAfter(inlineBlockEnd(f), show(token))
    ELSE formatMultilineBlockEnd(f, token)

formatCaseStart(f, token) ==
    LET f1 == increaseBlockLevel(addWithSpaces(f, show(token)))
    IN  IF cfg.multilineLists = "always" THEN addNewline(f1) ELSE f1

formatCaseEnd(f, token) == formatMultilineBlockEnd(f, token)

formatPlaceholder(f, token) == addWithSpaces(f, paramsGet(token))

\* ---- format(): one iteration of the loop over the statement's tokens ----
\* The token after the bookkeeping at the head of the loop body.
loopToken(f) ==
    LET token == f.tokens[f.index + 1]
    IN  IF isReserved(token) /\ token.type \in
              { "RESERVED_LOGICAL_OPERATOR", "RESERVED_DEPENDENT_CLAUSE",
                "RESERVED_COMMAND", "RESERVED_BINARY_COMMAND" }
        THEN toTabularToken(token, cfg.indentStyle)
        ELSE token

\* The formatter after the bookkeeping at the head of the loop body.
loopHead(f) ==
    LET token == f.tokens[f.index + 1]
        f1 == IF isReserved(token) THEN [f EXCEPT !.previousReservedToken = token] ELSE f
    IN  IF isReserved(token) /\ loopToken(f).type = "RESERVED_COMMAND"
        THEN [f1 EXCEPT !.previousCommandToken = loopToken(f)]
        ELSE f1

\* The branch of the if-else chain the token takes.
handlerOf(token) ==
    CASE token.type = "LINE_COMMENT" -> "formatLineComment"
      [] token.type = "BLOCK_COMMENT" -> "formatBlockComment"
      [] token.type = "RESERVED_COMMAND" -> "formatCommand"
      [] token.type = "RESERVED_BINARY_COMMAND" -> "formatBinaryCommand"
      [] token.type = "RESERVED_DEPENDENT_CLAUSE" -> "formatDependentClause"
      [] token.type = "RESERVED_JOIN_CONDITION" -> "formatJoinCondition"
      [] token.type = "RESERVED_LOGICAL_OPERATOR" -> "formatLogicalOperator"
      [] token.type = "RESERVED_KEYWORD" -> "formatKeyword"
      [] token.type = "BLOCK_START" -> "formatBlockStart"
      [] token.type = "BLOCK_END" -> "formatBlockEnd"
      [] token.type = "RESERVED_CASE_START" -> "formatCaseStart"
      [] token.type = "RESERVED_CASE_END" -> "formatCaseEnd"
      [] token.type = "PLACEHOLDER" -> "formatPlaceholder"
      [] token.type = "OPERATOR" -> "formatOperator"
      [] OTHER -> "formatWord"

\* One iteration: bookkeeping, dispatch, index++.
loopBody(f) ==
    LET token == loopToken(f)
        f0 == loopHead(f)
        h == handlerOf(token)
        f1 == CASE h = "formatLineComment" -> formatLineComment(f0, token)
                [] h = "formatBlockComment" -> formatBlockComment(f0, token)
                [] h = "formatCommand" ->
                       formatCommand([f0 EXCEPT !.currentNewline = checkNewline(f0, token)], token)
                [] h = "formatBinaryCommand" -> formatBinaryCommand(f0, token)
                [] h = "formatDependentClause" -> formatDependentClause(f0, token)
                [] h = "formatJoinCondition" -> formatJoinCondition(f0, token)
                [] h = "formatLogicalOperator" -> formatLogicalOperator(f0, token)
                [] h = "formatKeyword" -> formatKeyword(f0, token)
                [] h = "formatBlockStart" -> formatBlockStart(f0, token)
                [] h = "formatBlockEnd" -> formatBlockEnd(f0, token)
                [] h = "formatCaseStart" -> formatCaseStart(f0, token)
                [] h = "formatCaseEnd" -> formatCaseEnd(f0, token)
                [] h = "formatPlaceholder" -> formatPlaceholder(f0, token)
                [] h = "formatOperator" -> formatOperator(f0, token)
                [] OTHER -> formatWord(f0, token)
    IN  [f1 EXCEPT !.index = @ + 1]

(***************************************************************************)
(* Part 6.  The entry function: statements, one formatter each             *)
(***************************************************************************)

\* The statements of a token sequence: each ends with its ";" or at the end.
RECURSIVE segment(_, _)
segment(tokens, current) ==
    IF tokens = <<>>
    THEN (IF current = <<>> THEN <<>> ELSE <<current>>)
    ELSE IF Head(tokens).type = "OPERATOR" /\ Head(tokens).value = ";"
         THEN <<Append(current, Head(tokens))>> \o segment(Tail(tokens), <<>>)
         ELSE segment(Tail(tokens), Append(current, Head(tokens)))

\* One StatementFormatter kept for all statements, only its buffer renewed
Construct_ReusesFormatter ==
    /\ pc = "new"
    /\ sf' = [sf EXCEPT !.tokens = statements[sidx], !.index = 0, !.query = "", !.log = <<>>]
    /\ pc' = "loop"
    /\ UNCHANGED <<cfg, statements, sidx, results, dvars, evars>>

\* new StatementFormatter(cfg, params, asTokenFactory).format(statement): entry
Construct ==
    /\ pc = "new"
    /\ sf' = [NewStatementFormatter EXCEPT !.tokens = statements[sidx], !.index = 0]
    /\ pc' = "loop"
    /\ UNCHANGED <<cfg, statements, sidx, results, dvars, evars>>

\* The loop is at a token that the dispatch hands to handler h.
dispatches(h) ==
    /\ pc = "loop"
    /\ sf.index < Len(sf.tokens)
    /\ handlerOf(loopToken(sf)) = h

\* One iteration of the loop; a throw ends format().
iterate ==
    /\ sf' = loopBody(sf)
    /\ pc' = IF sf'.thrown THEN "failed" ELSE "loop"
    /\ UNCHANGED <<cfg, statements, sidx, results, dvars, evars>>

FormatLineComment ==
    /\ dispatches("formatLineComment")
    /\ iterate

FormatBlockComment ==
    /\ dispatches("formatBlockComment")
    /\ iterate

FormatCommand ==
    /\ dispatches("formatCommand")
    /\ iterate

FormatBinaryCommand ==
    /\ dispatches("formatBinaryCommand")
    /\ iterate

FormatDependentClause ==
    /\ dispatches("formatDependentClause")
    /\ iterate

FormatJoinCondition ==
    /\ dispatches("formatJoinCondition")
    /\ iterate

FormatLogicalOperator ==
    /\ dispatches("formatLogicalOperator")
    /\ iterate

FormatKeyword ==
    /\ dispatches("formatKeyword")
    /\ iterate

FormatBlockStart ==
    /\ dispatches("formatBlockStart")
    /\ iterate

FormatBlockEnd ==
    /\ dispatches("formatBlockEnd")
    /\ iterate

FormatCaseStart ==
    /\ dispatches("formatCaseStart")
    /\ iterate

FormatCaseEnd ==
    /\ dispatches("formatCaseEnd")
    /\ iterate

FormatPlaceholder ==
    /\ dispatches("formatPlaceholder")
    /\ iterate

FormatOperator ==
    /\ dispatches("formatOperator")
    /\ iterate

FormatWord ==
    /\ dispatches("formatWord")
    /\ iterate

\* return replaceTabularPlaceholders(this.query.toString()), and on to the
\* next statement
Return ==
    /\ pc = "loop"
    /\ sf.index = Len(sf.tokens)
    /\ results' = Append(results, replaceTabularPlaceholders(sf.query))
    /\ IF sidx < Len(statements)
       THEN sidx' = sidx + 1 /\ pc' = "new"
       ELSE sidx' = sidx /\ pc' = "done"
    /\ UNCHANGED <<cfg, statements, sf, dvars, evars>>

Next ==
    \/ Construct
    \/ FormatLineComment
    \/ FormatBlockComment
    \/ FormatCommand
    \/ FormatBinaryCommand
    \/ FormatDependentClause
    \/ FormatJoinCondition
    \/ FormatLogicalOperator
    \/ FormatKeyword
    \/ FormatBlockStart
    \/ FormatBlockEnd
    \/ FormatCaseStart
    \/ FormatCaseEnd
    \/ FormatPlaceholder
    \/ FormatOperator
    \/ FormatWord
    \/ Return

\* s.trim()
trim(s) == trimStart(trimEnd(s))

RECURSIVE joinResults(_, _)
joinResults(rs, sep) ==
    IF rs = <<>> THEN ""
    ELSE IF Len(rs) = 1 THEN trim(rs[1])
    ELSE trim(rs[1]) \o sep \o joinResults(Tail(rs), sep)

\* What format(query, cfg) returns once every statement is formatted.
formatted == joinResults(results, repeat("\n", cfg.linesBetweenQueries))

\* format(statement) run to its end from a new StatementFormatter.
RECURSIVE runLoop(_)
runLoop(f) ==
    IF f.thrown \/ f.index >= Len(f.tokens) THEN f ELSE runLoop(loopBody(f))

formatRun(tokens) ==
    runLoop([NewStatementFormatter EXCEPT !.tokens = tokens, !.index = 0])

formatStatement(tokens) == replaceTabularPlaceholders(formatRun(tokens).query)

formatStatements(stmts) == [k \in 1..Len(stmts) |-> formatStatement(stmts[k])]

\* ---- the token streams and option records explored ----

MaxLen == 2

Kw(type, text, value, ws) == FTok(type, text, value, ws)

Word(type, text, ws) == FTok(type, text, text, ws)

\* One or two representatives for each branch of the dispatch in format().
FormatterTokens ==
    { Kw("RESERVED_COMMAND", "select", "SELECT", " "),
      Kw("RESERVED_COMMAND", "group  by", "GROUP BY", "  "),
      Kw("RESERVED_BINARY_COMMAND", "union", "UNION", " "),
      Kw("RESERVED_DEPENDENT_CLAUSE", "when", "WHEN", " "),
      Kw("RESERVED_JOIN_CONDITION", "on", "ON", " "),
      Kw("RESERVED_LOGICAL_OPERATOR", "and", "AND", " "),
      Kw("RESERVED_KEYWORD", "as", "AS", " "),
      Kw("RESERVED_CASE_START", "case", "CASE", " "),
      Kw("RESERVED_CASE_END", "end", "END", " "),
      Word("BLOCK_START", "(", ""),
      Word("BLOCK_END", ")", ""),
      Word("PLACEHOLDER", "?", " "),
      Word("OPERATOR", ",", ""),
      Word("OPERATOR", ";", ""),
      Word("OPERATOR", "+", ""),
      Word("IDENTIFIER", "a", " "),
      FTok("QUOTED_IDENTIFIER", "\"b\"", "b", " "),
      Word("STRING", "'s'", " "),
      Word("LINE_COMMENT", "--c", " "),
      Word("BLOCK_COMMENT", "/*c\n    d*/", "\n") }

Select == Kw("RESERVED_COMMAND", "select", "SELECT", "")

From(ws) == Kw("RESERVED_COMMAND", "from", "FROM", ws)

Where == Kw("RESERVED_COMMAND", "where", "WHERE", " ")

Id(text) == Word("IDENTIFIER", text, " ")

Num(text) == Word("NUMBER", text, " ")

Op(text) == Word("OPERATOR", text, "")

LP == Word("BLOCK_START", "(", "")

SpacedLP == Word("BLOCK_START", "(", " ")

RP == Word("BLOCK_END", ")", "")

\* Longer queries: the scenarios of the documentation and statements with
\* unbalanced blocks, several statements, comments in nested blocks.
Scenarios ==
    { <<Select, Num("1")>>,
      <<Select, Id("a"), Op(","), Id("b"), From(" "), Id("t"), Where, Id("x"), Op(">"), Num("1")>>,
      <<Select, Kw("RESERVED_FUNCTION_NAME", "count", "COUNT", " "), LP, Op("*"), RP, From(" "), Id("t")>>,
      <<Select, Id("a"), Word("PROPERTY_ACCESS_OPERATOR", ".", ""), Word("IDENTIFIER", "b", ""), From(" "), Id("t")>>,
      <<Select, Op("*"), From(" "), Id("t"), Where, Id("x"),
        Kw("RESERVED_KEYWORD", "between", "BETWEEN", " "), Num("1"),
        Kw("RESERVED_LOGICAL_OPERATOR", "and", "AND", " "), Num("2")>>,
      <<Select, Kw("RESERVED_CASE_START", "case", "CASE", " "),
        Kw("RESERVED_DEPENDENT_CLAUSE", "when", "WHEN", " "), Id("a"),
        Kw("RESERVED_KEYWORD", "then", "THEN", " "), Num("1"),
        Kw("RESERVED_CASE_END", "end", "END", " "), From(" "), Id("t")>>,
      <<Select, Id("a"), From("   "), Id("t"), Op(";")>>,
      <<Select, SpacedLP, Select, Id("a"), From(" "), Id("t"), RP>>,
      <<Select, Id("a"), Id("x"), From(" "), Id("t"),
        Kw("RESERVED_BINARY_COMMAND", "left join", "LEFT JOIN", " "), Id("u"),
        Kw("RESERVED_JOIN_CONDITION", "on", "ON", " "), Id("c")>>,
      <<Select, SpacedLP, LP, Id("a"), Op(";"), RP, RP, RP, Select, Id("b"), Op(";"), Select, Num("1")>>,
      <<Select, Kw("RESERVED_CASE_START", "case", "CASE", " "), Op(";"), Select, Id("b"),
        Kw("RESERVED_LOGICAL_OPERATOR", "and", "AND", " "), Id("c")>>,
      <<Select, SpacedLP, Select, SpacedLP, Select, Id("a"),
        Word("BLOCK_COMMENT", "/*c\nd\n\t e*/", " "), Word("LINE_COMMENT", "--c", " "),
        RP, RP, From(" "), Id("t")>>,
      <<LP, RP, RP, Kw("RESERVED_CASE_END", "end", "END", " "),
        Kw("RESERVED_BINARY_COMMAND", "union", "UNION", " "),
        Kw("RESERVED_LOGICAL_OPERATOR", "and", "AND", " "), From(" "), RP, LP, LP>>,
      <<Select, FTok("QUOTED_IDENTIFIER", "\"b\"", "b", " "), Op(","), Word("STRING", "'s'", " "),
        Kw("RESERVED_COMMAND", "order  by", "ORDER BY", "\n"), Id("a")>>,
      <<Select, Id("a"), Kw("RESERVED_COMMAND", "limit", "LIMIT", " "), Num("1"), Op(","), Num("2")>>,
      <<Select, Id("f"), LP, Id("a"), Op(","), Id("b"), LP, Id("c"), RP, RP, Op(","), Id("d"), Op(";")>>,
      <<Select, Id("a"), Op(","), SpacedLP, Select, Id("b"), From(" "), Id("t"), RP, Op(","), Id("c"),
        Kw("RESERVED_LOGICAL_OPERATOR", "or", "OR", " "), Id("d")>>,
      <<Select, SpacedLP, Kw("RESERVED_CASE_START", "case", "CASE", " "),
        Kw("RESERVED_DEPENDENT_CLAUSE", "when", "WHEN", " "), Id("f"), LP, Id("a"), RP,
        Kw("RESERVED_KEYWORD", "then", "THEN", " "), Num("1"),
        Kw("RESERVED_CASE_END", "end", "END", " "), RP, From(" "), Id("t")>>,
      <<Select, Id("a"), Op(":"), Id("b"), Op("$"), Num("1"), Op("+"), Num("2")>> }

Queries == SeqsUpTo(FormatterTokens, MaxLen) \cup Scenarios

\* Option records as validateConfig hands them to the formatter.
Configs ==
    { defaultOptions,
      [defaultOptions EXCEPT !.aliasAs = "preserve", !.multilineLists = "always",
                             !.keywordCase = "upper"],
      [defaultOptions EXCEPT !.aliasAs = "preserve", !.indentStyle = "tabularLeft",
                             !.keywordCase = "lower", !.multilineLists = "avoid"],
      [defaultOptions EXCEPT !.indentStyle = "tabularRight", !.logicalOperatorNewline = "after",
                             !.denseOperators = TRUE],
      [defaultOptions EXCEPT !.aliasAs = "preserve", !.multilineLists = "expressionWidth",
                             !.expressionWidth = 8],
      [defaultOptions EXCEPT !.multilineLists = "number", !.multilineListsN = 1,
                             !.newlineBeforeSemicolon = TRUE, !.newlineBeforeOpenParen = TRUE,
                             !.newlineBeforeCloseParen = TRUE, !.linesBetweenQueries = 2,
                             !.useTabs = TRUE, !.aliasAs = "never"],
      [defaultOptions EXCEPT !.aliasAs = "always", !.expressionWidth = 8],
      [defaultOptions EXCEPT !.multilineLists = "number", !.multilineListsN = 2,
                             !.expressionWidth = 12, !.logicalOperatorNewline = "after"] }

Init ==
    /\ input = <<>>
    /\ stream = <<>>
    /\ dpass = 0
    /\ cfg \in Configs
    /\ \E q \in Queries : statements = segment(q, <<>>)
    /\ sidx = 1
    /\ sf = NewStatementFormatter
    /\ results = <<>>
    /\ pc = IF statements = <<>> THEN "done" ELSE "new"
    /\ partialCfg = <<>>
    /\ FormatterCls = "SqlFormatter"

Spec == Init /\ [][Next]_vars

(***************************************************************************)
(* Part 7.  Properties of the formatter                                    *)
(***************************************************************************)

RECURSIVE stripWhitespace(_)
stripWhitespace(s) ==
    IF s = "" THEN ""
    ELSE IF isWhitespace(Head(s)) THEN stripWhitespace(Tail(s))
         ELSE Head(s) \o stripWhitespace(Tail(s))

keywordCased(text) ==
    CASE cfg.keywordCase = "upper" -> toUpperCase(text)
      [] cfg.keywordCase = "lower" -> toLowerCase(text)
      [] OTHER -> text

sourceText(token) ==
    stripWhitespace(IF isReserved(token) THEN keywordCased(token.text) ELSE token.text)

RECURSIVE sourceTexts(_)
sourceTexts(tokens) ==
    IF tokens = <<>> THEN "" ELSE sourceText(Head(tokens)) \o sourceTexts(Tail(tokens))

Separator == repeat("\n", cfg.linesBetweenQueries)

\* The statements whose formatting has finished.
Finished == 1..Len(results)

\* C1: with aliasAs = 'preserve' the output of every statement, all
\* whitespace removed, is the concatenation of its tokens' source texts, all
\* whitespace removed, in the letter case keywordCase gives reserved tokens;
\* quoted identifiers and strings keep their quote characters.
C1_LexicalPreservation ==
    cfg.aliasAs = "preserve" =>
        \A k \in Finished : stripWhitespace(results[k]) = sourceTexts(statements[k])

\* What the code preserves: the value of a token that is not reserved.
emittedText(token) ==
    stripWhitespace(IF isReserved(token) THEN keywordCased(token.text) ELSE token.value)

RECURSIVE emittedTexts(_)
emittedTexts(tokens) ==
    IF tokens = <<>> THEN "" ELSE emittedText(Head(tokens)) \o emittedTexts(Tail(tokens))

C1_ValuesPreserved ==
    cfg.aliasAs = "preserve" =>
        \A k \in Finished : stripWhitespace(results[k]) = emittedTexts(statements[k])

C1_QuotesLost ==
    /\ cfg.aliasAs = "preserve"
    /\ \E k \in Finished :
          /\ \E i \in 1..Len(statements[k]) :
                /\ statements[k][i].type = "QUOTED_IDENTIFIER"
                /\ statements[k][i].value # statements[k][i].text
          /\ stripWhitespace(results[k]) # sourceTexts(statements[k])

\* ---- comments ----

isCommentToken(token) == token.type \in {"LINE_COMMENT", "BLOCK_COMMENT"}

\* The tokens the current formatter has processed (JavaScript indices).
Processed == { i \in 0..(Len(sf.tokens) - 1) : i < sf.index }

entriesOf(i) == { k \in 1..Len(sf.log) : sf.log[k].index = i }

\* The log entry is where the buffer holds it.
inBuffer(e) == SubSeq(sf.query, e.start + 1, e.start + Len(e.text)) = e.text

emittedInOrder ==
    \A j, k \in 1..Len(sf.log) :
        j < k => /\ sf.log[j].index <= sf.log[k].index
                 /\ sf.log[j].start + Len(sf.log[j].text) <= sf.log[k].start

\* The text without the spaces and tabs that follow its line breaks.
RECURSIVE withoutLineIndents(_)
withoutLineIndents(s) ==
    IF s = "" THEN ""
    ELSE IF Head(s) = "\n" THEN "\n" \o withoutLineIndents(trimSpacesStart(Tail(s)))
         ELSE Head(s) \o withoutLineIndents(Tail(s))

\* Every line break of s is followed by exactly the prefix p.
RECURSIVE linesStartWith(_, _)
linesStartWith(s, p) ==
    IF s = "" THEN TRUE
    ELSE IF Head(s) = "\n"
         THEN /\ Len(s) > Len(p)
              /\ SubSeq(s, 2, Len(p) + 1) = p
              /\ ~isSpaceOrTab(CharAt(s, Len(p) + 2))
              /\ linesStartWith(Tail(s), p)
         ELSE linesStartWith(Tail(s), p)

\* C2 as stated: every comment token processed so far is in the output
\* exactly once, in source order, with text identical to the input's.
C2_AsClaimed ==
    /\ emittedInOrder
    /\ \A i \in Processed :
          isCommentToken(sf.tokens[i + 1]) =>
              /\ Cardinality(entriesOf(i)) = 1
              /\ \A k \in entriesOf(i) :
                    inBuffer(sf.log[k]) /\ sf.log[k].text = sf.tokens[i + 1].text

\* C2: every comment token processed so far is in the output exactly once,
\* in source order; a line comment with text identical to the input's, a
\* block comment identical but for the spaces and tabs after each of its
\* line breaks, which are the indentation in force plus one space.
C2_CommentsPreserved ==
    /\ emittedInOrder
    /\ \A i \in Processed :
          isCommentToken(sf.tokens[i + 1]) =>
              /\ Cardinality(entriesOf(i)) = 1
              /\ \A k \in entriesOf(i) :
                    LET e == sf.log[k]
                        token == sf.tokens[i + 1]
                    IN  /\ inBuffer(e)
                        /\ token.type = "LINE_COMMENT" => e.text = token.text
                        /\ token.type = "BLOCK_COMMENT" =>
                              /\ withoutLineIndents(e.text) = withoutLineIndents(token.text)
                              /\ linesStartWith(e.text, repeat(indentString(cfg), e.depth) \o " ")

hasLineBreak(s) == \E n \in 1..Len(s) : CharAt(s, n) = "\n"

\* A block comment of several lines emitted two indentation steps deep,
\* after a line comment or before one.
C2_Witness ==
    /\ pc = "loop"
    /\ sf.index = Len(sf.tokens)
    /\ \E k \in 1..Len(sf.log) :
          /\ sf.tokens[sf.log[k].index + 1].type = "BLOCK_COMMENT"
          /\ hasLineBreak(sf.log[k].text)
          /\ sf.log[k].depth >= 2
          /\ sf.log[k].text # sf.tokens[sf.log[k].index + 1].text
    /\ \E k \in 1..Len(sf.log) : sf.tokens[sf.log[k].index + 1].type = "LINE_COMMENT"

\* ---- the second run ----

RECURSIVE leadingMarkers(_)
leadingMarkers(s) ==
    IF s # "" /\ Head(s) = TabularPlaceholder THEN 1 + leadingMarkers(Tail(s)) ELSE 0

RECURSIVE withoutMarkers(_)
withoutMarkers(s) ==
    IF s = "" THEN ""
    ELSE IF Head(s) = TabularPlaceholder THEN withoutMarkers(Tail(s))
         ELSE Head(s) \o withoutMarkers(Tail(s))

\* The rest of the line of s that begins after offset from.
RECURSIVE restOfLine(_, _)
restOfLine(s, from) ==
    IF from >= Len(s) \/ CharAt(s, from + 1) = "\n" THEN ""
    ELSE CharAt(s, from + 1) \o restOfLine(s, from + 1)

\* The token the lexer makes of one emitted text: the category and the value
\* are those of the token it came from, unless the text changed its class.
lexOne(origin, text, ws) ==
    IF text \in {"as", "AS"} THEN FTok("RESERVED_KEYWORD", text, "AS", ws)
    ELSE IF isReserved(origin) THEN FTok(origin.type, text, origin.value, ws)
    ELSE IF origin.type = "QUOTED_IDENTIFIER" /\ text # origin.text
         THEN FTok("IDENTIFIER", text, text, ws)
    ELSE FTok(origin.type, text, text, ws)

\* The tokens the lexer finds in the output of a finished formatter f: the
\* emitted texts, each with the whitespace that now precedes it; a line
\* comment reaches to the end of its line.
RECURSIVE lexFrom(_, _, _, _, _)
lexFrom(f, out, k, pos, first) ==
    IF k > Len(f.log) THEN <<>>
    ELSE LET e == f.log[k]
             origin == f.tokens[e.index + 1]
             begin == e.start + leadingMarkers(e.text)
             text == IF origin.type = "LINE_COMMENT"
                     THEN trimSpacesEnd(restOfLine(out, begin))
                     ELSE withoutMarkers(e.text)
             ws == IF pos = 0 THEN first ELSE SubSeq(out, pos + 1, begin)
         IN  IF begin < pos
             THEN lexFrom(f, out, k + 1, pos, first)
             ELSE <<lexOne(origin, text, ws)>>
                      \o lexFrom(f, out, k + 1, begin + Len(text), first)

lexOutput(tokens, first) ==
    LET f == formatRun(tokens)
    IN  lexFrom(f, replaceTabularPlaceholders(f.query), 1, 0, first)

RECURSIVE lexOutputs(_, _)
lexOutputs(stmts, k) ==
    IF k > Len(stmts) THEN <<>>
    ELSE lexOutput(stmts[k], IF k = 1 THEN "" ELSE Separator) \o lexOutputs(stmts, k + 1)

\* format(q, o) for the token stream of q
formatTokens(tokens) == joinResults(formatStatements(segment(tokens, <<>>)), Separator)

secondRun == formatTokens(lexOutputs(statements, 1))

\* C3: formatting the formatted output again changes nothing.
C3_Idempotence == pc = "done" => secondRun = formatted

\* The second run differs although the first emitted every token with its
\* source text: only the whitespace before the tokens has changed.
C3_WidthDependsOnWhitespace ==
    /\ pc = "done"
    /\ cfg.indentStyle = "standard"
    /\ Len(statements) = 1
    /\ secondRun # formatted
    /\ LET again == lexOutputs(statements, 1)
       IN  /\ Len(again) = Len(statements[1])
           /\ \A i \in 1..Len(again) :
                 /\ again[i].type = statements[1][i].type
                 /\ again[i].value = statements[1][i].value
                 /\ again[i].text = statements[1][i].text

\* ---- statements ----

C5_CountersClampedNeverFails ==
    /\ sf.topLevel >= 0
    /\ sf.blockLevel >= 0
    /\ ~sf.thrown
    /\ pc # "failed"
    /\ pc = "done" => Len(results) = Len(statements)
    /\ \A k \in Finished : formatRun(statements[k]).index = Len(statements[k])

closesMoreThanOpens(tokens) ==
    \E n \in 1..Len(tokens) :
        Cardinality({ i \in 1..n : tokens[i].type \in {"BLOCK_END", "RESERVED_CASE_END"} })
          > Cardinality({ i \in 1..n : tokens[i].type \in {"BLOCK_START", "RESERVED_CASE_START"} })

\* A statement that closes more blocks than it opened, and opens with a
\* parenthesis that has no token before it, was formatted to its end.
C5_Witness ==
    /\ pc = "done"
    /\ isTabularStyle(cfg)
    /\ \E k \in Finished :
          /\ closesMoreThanOpens(statements[k])
          /\ \E i \in 1..Len(statements[k]) : statements[k][i].type = "RESERVED_BINARY_COMMAND"
          /\ \E i \in 1..Len(statements[k]) : statements[k][i].type = "RESERVED_LOGICAL_OPERATOR"
          /\ statements[k][1].type = "BLOCK_START"
          /\ statements[k][1].whitespaceBefore = ""

\* ---- the documented scenarios ----

SelectOne == <<Select, Num("1")>>

SelectList ==
    <<Select, Id("a"), Op(","), Id("b"), From(" "), Id("t"), Where, Id("x"), Op(">"), Num("1")>>

formatsDefault(q) == cfg = defaultOptions /\ pc = "done" /\ statements = <<q>>

\* C11: with the default options `select 1` is output as SELECT, a line
\* break and the operand indented by two spaces, and `select a,b from t
\* where x>1` with every command upper-cased on its own line and one list
\* item per line.
C11_DefaultLayout ==
    /\ formatsDefault(SelectOne) => formatted = "SELECT\n  1"
    /\ formatsDefault(SelectList) =>
          formatted = "SELECT\n  a,\n  b\nFROM\n  t\nWHERE\n  x > 1"

\* What the default options give: the keywords as written, each clause on
\* one line.
C11_DefaultKeepsCaseAndLine ==
    /\ formatsDefault(SelectOne) => formatted = "select 1"
    /\ formatsDefault(SelectList) => formatted = "select a, b\nfrom t\nwhere x > 1"

C11_DefaultRun == formatsDefault(SelectOne) \/ formatsDefault(SelectList)

\* ---- steps of the loop ----

RECURSIVE lineBreaks(_)
lineBreaks(s) ==
    IF s = "" THEN 0 ELSE (IF Head(s) = "\n" THEN 1 ELSE 0) + lineBreaks(Tail(s))

endsWith(s, t) == Len(s) >= Len(t) /\ SubSeq(s, Len(s) - Len(t) + 1, Len(s)) = t

\* The loop is at an AND whose token two positions before is BETWEEN.
atBetweenAnd ==
    /\ dispatches("formatLogicalOperator")
    /\ isTokenAND(loopToken(sf))
    /\ sf.index >= 2
    /\ isTokenBETWEEN(sf.tokens[sf.index - 1])

\* C12: an AND two positions after BETWEEN is emitted with a space on each
\* side, with no line break added before or after it and with both
\* indentation counters unchanged, whatever currentNewline,
\* logicalOperatorNewline and indentStyle are.
C12_BetweenAnd ==
    [][ atBetweenAnd =>
          /\ sf'.topLevel = sf.topLevel
          /\ sf'.blockLevel = sf.blockLevel
          /\ lineBreaks(sf'.query) = lineBreaks(sf.query)
          /\ \/ endsWith(sf'.query, " " \o show(loopToken(sf)) \o " ")
             \/ atLineStart(sf.query) /\ endsWith(sf'.query, show(loopToken(sf)) \o " ")
      ]_vars

\* The AND of `x between 1 and 2` has been emitted in multi-line mode.
C12_Witness ==
    /\ pc = "loop"
    /\ sf.index >= 3
    /\ isTokenAND(sf.tokens[sf.index])
    /\ isTokenBETWEEN(sf.tokens[sf.index - 2])
    /\ sf.currentNewline
    /\ cfg.logicalOperatorNewline = "before"
    /\ ~atLineStart(sf.query)

\* The tokens after the current one up to the next command or `;`, or to
\* the end of the statement.
RECURSIVE upToCommandOrEnd(_)
upToCommandOrEnd(tokens) ==
    IF tokens = <<>> THEN <<>>
    ELSE IF isCommand(Head(tokens)) \/ Head(tokens).value = ";" THEN <<>>
         ELSE <<Head(tokens)>> \o upToCommandOrEnd(Tail(tokens))

clauseOf(f) == upToCommandOrEnd(SubSeq(f.tokens, f.index + 2, Len(f.tokens)))

hasCase(tokens) == \E k \in 1..Len(tokens) : isTokenCASE(tokens[k])

\* C13: the decision for a SELECT whose tail contains a CASE is true for
\* every multilineLists; a CASE in the tail of another command forces
\* nothing (under 'avoid' its decision stays false).
C13_SelectWithCase ==
    [][ (dispatches("formatCommand") /\ hasCase(clauseOf(sf))) =>
          /\ isTokenSELECT(loopToken(sf)) => sf'.currentNewline
          /\ (~isTokenSELECT(loopToken(sf)) /\ cfg.multilineLists = "avoid")
                => ~sf'.currentNewline
      ]_vars

\* The override as the code applies it: on the tail it computes.
C13_OverrideOnComputedTail ==
    [][ (dispatches("formatCommand") /\ hasCase(tokensUntilNextCommandOrQueryEnd(sf))) =>
          /\ isTokenSELECT(loopToken(sf)) => sf'.currentNewline
          /\ (~isTokenSELECT(loopToken(sf)) /\ cfg.multilineLists = "avoid")
                => ~sf'.currentNewline
      ]_vars

\* A SELECT whose only CASE is the last token of the statement was decided
\* under 'avoid' and stays on one line.
C13_LastCaseNotSeen ==
    /\ pc = "loop"
    /\ sf.index = 1
    /\ isTokenSELECT(sf.tokens[1])
    /\ Len(sf.tokens) = 2
    /\ isTokenCASE(sf.tokens[2])
    /\ cfg.multilineLists = "avoid"
    /\ ~sf.currentNewline

\* The loop is at an open paren that had no whitespace before it and whose
\* preceding token is no BLOCK_START, LINE_COMMENT or OPERATOR.
atGluedParen ==
    /\ dispatches("formatBlockStart")
    /\ loopToken(sf).whitespaceBefore = ""
    /\ tokenLookBehind(sf, 1).type \notin {"BLOCK_START", "LINE_COMMENT", "OPERATOR"}

\* What the buffer holds before the text emitted last.
beforeLast(f) == SubSeq(f.query, 1, f.log[Len(f.log)].start)

endsInWhitespace(s) == s # "" /\ isWhitespace(CharAt(s, Len(s)))

\* What separates a paren that is not glued, by newlineBeforeOpenParen.
separated(q) ==
    IF ~cfg.newlineBeforeOpenParen THEN trimEnd(q) \o " "
    ELSE IF atLineStart(q) THEN q
    ELSE trimSpacesEnd(q) \o " "

\* C14 as stated: neither a space nor a line break lies between the
\* preceding token and a glued paren.
C14_AsClaimed ==
    [][ atGluedParen => ~endsInWhitespace(beforeLast(sf')) ]_vars

\* C14: a glued paren directly follows what the buffer held without its
\* trailing spaces and tabs, for every newlineBeforeOpenParen, so a line
\* break left by the preceding token stays; every other paren is separated
\* according to newlineBeforeOpenParen.
C14_GluedOpenParen ==
    [][ dispatches("formatBlockStart") =>
          /\ sf'.log[Len(sf'.log)].index = sf.index
          /\ sf'.log[Len(sf'.log)].text = "("
          /\ atGluedParen => beforeLast(sf') = trimSpacesEnd(sf.query)
          /\ ~atGluedParen => beforeLast(sf') = separated(sf.query)
      ]_vars

RECURSIVE contains(_, _)
contains(s, t) ==
    IF Len(s) < Len(t) THEN FALSE
    ELSE SubSeq(s, 1, Len(t)) = t \/ contains(Tail(s), t)

\* `select count(*) from t` with keywordCase upper is done and holds COUNT(
C14_Witness ==
    /\ pc = "done"
    /\ cfg.keywordCase = "upper"
    /\ statements # <<>>
    /\ \E i \in 2..Len(statements[1]) :
          /\ statements[1][i].type = "BLOCK_START"
          /\ statements[1][i].whitespaceBefore = ""
          /\ statements[1][i - 1].type = "RESERVED_FUNCTION_NAME"
    /\ contains(formatted, "COUNT(")
    /\ ~contains(formatted, "COUNT (")

\* A glued paren after a command in multi-line mode: the line break stays.
C14_ParenAfterLineBreak ==
    /\ pc = "loop"
    /\ sf.index = 2
    /\ isCommand(sf.tokens[1])
    /\ sf.tokens[2].type = "BLOCK_START"
    /\ sf.tokens[2].whitespaceBefore = ""
    /\ contains(sf.query, "\n(")

(***************************************************************************)
(* Part 8.  The entry function format(query, cfg)                          *)
(***************************************************************************)

formatters ==
    [ bigquery |-> "BigQueryFormatter",
      db2 |-> "Db2Formatter",
      hive |-> "HiveFormatter",
      mariadb |-> "MariaDbFormatter",
      mysql |-> "MySqlFormatter",
      n1ql |-> "N1qlFormatter",
      plsql |-> "PlSqlFormatter",
      postgresql |-> "PostgreSqlFormatter",
      redshift |-> "RedshiftFormatter",
      singlestoredb |-> "SingleStoreDbFormatter",
      snowflake |-> "SnowflakeFormatter",
      spark |-> "SparkFormatter",
      sql |-> "SqlFormatter",
      sqlite |-> "SqliteFormatter",
      transactsql |-> "TransactSqlFormatter",
      trino |-> "TrinoFormatter",
      tsql |-> "TransactSqlFormatter" ]

\* Object.keys(formatters) without the alias
supportedDialects_NoAlias == DOMAIN formatters \ {"tsql"}

\* Object.keys(formatters)
supportedDialects == DOMAIN formatters

\* The cfg arguments: a language string, listed or not, or none.
Requests ==
    { [hasLanguage |-> TRUE, language |-> l] :
          l \in DOMAIN formatters \cup {"", "SQL", "oracle", "postgres", "undefined"} }
      \cup { [hasLanguage |-> FALSE, language |-> ""] }

InitE ==
    /\ input = <<>>
    /\ stream = <<>>
    /\ dpass = 0
    /\ cfg = defaultOptions
    /\ \E q \in Scenarios : statements = segment(q, <<>>)
    /\ sidx = 1
    /\ sf = NewStatementFormatter
    /\ results = <<>>
    /\ pc = "format"
    /\ partialCfg \in Requests
    /\ FormatterCls = "none"

\* format(query, cfg): the dialect test, then validateConfig of the merged
\* options, the choice of the formatter class and its format(query)
format ==
    /\ pc = "format"
    /\ IF partialCfg.hasLanguage /\ partialCfg.language \notin supportedDialects
       THEN /\ pc' = "ConfigError"
            /\ UNCHANGED <<cfg, FormatterCls, results, sidx>>
       ELSE /\ cfg' = IF partialCfg.hasLanguage
                      THEN [defaultOptions EXCEPT !.language = partialCfg.language]
                      ELSE defaultOptions
            /\ FormatterCls' = formatters[cfg'.language]
            /\ results' = formatStatements(statements)
            /\ sidx' = Len(statements)
            /\ pc' = "done"
    /\ UNCHANGED <<statements, sf, dvars, partialCfg>>

SpecE == InitE /\ [][format]_vars

ListedDialects ==
    { "sql", "bigquery", "db2", "hive", "mariadb", "mysql", "n1ql", "plsql", "postgresql",
      "redshift", "singlestoredb", "snowflake", "spark", "sqlite", "transactsql", "tsql",
      "trino" }

\* C15: a language string outside the listed tags raises ConfigError before
\* options are validated or anything is formatted, and no string is
\* returned; a listed tag raises no such error, tsql selects the formatter
\* of transactsql, and an absent language selects that of sql.
C15_ClosedDialectSet ==
    /\ (partialCfg.hasLanguage /\ partialCfg.language \notin ListedDialects) =>
          /\ pc \in {"format", "ConfigError"}
          /\ results = <<>>
          /\ cfg = defaultOptions
          /\ FormatterCls = "none"
    /\ (~partialCfg.hasLanguage \/ partialCfg.language \in ListedDialects) =>
          /\ pc # "ConfigError"
          /\ pc = "done" =>
                FormatterCls = IF ~partialCfg.hasLanguage THEN formatters["sql"]
                               ELSE IF partialCfg.language = "tsql"
                                    THEN formatters["transactsql"]
                                    ELSE formatters[partialCfg.language]
          /\ pc = "done" => Len(results) = Len(statements)

\* tsql has been formatted by the formatter of transactsql.
C15_Witness ==
    /\ pc = "done"
    /\ partialCfg.hasLanguage
    /\ partialCfg.language = "tsql"
    /\ FormatterCls = "TransactSqlFormatter"
    /\ results # <<>>

\* An unknown language has raised ConfigError.
C15_Rejected ==
    /\ pc = "ConfigError"
    /\ partialCfg.language = "postgres"

\* ---- the tail of a command ----

\* A later token of the statement is a command or has value `;`.
hasCommandOrEndAfter(f) ==
    \E k \in (f.index + 2)..Len(f.tokens) : isCommand(f.tokens[k]) \/ f.tokens[k].value = ";"

\* C16: the tail used for the decision of a command is the tokens after it
\* up to the next command or `;`, or up to and including the last token of
\* the statement when there is none.
C16_TailOfCommand ==
    dispatches("formatCommand") => tokensUntilNextCommandOrQueryEnd(sf) = clauseOf(sf)

\* The tail the code computes: without its last token when no later
\* command or `;` exists.
C16_TailWithoutLastToken ==
    dispatches("formatCommand") =>
        tokensUntilNextCommandOrQueryEnd(sf) =
            IF hasCommandOrEndAfter(sf) \/ clauseOf(sf) = <<>>
            THEN clauseOf(sf)
            ELSE SubSeq(clauseOf(sf), 1, Len(clauseOf(sf)) - 1)

\* The last command of a statement that does not end with `;`: its one
\* operand is not in the computed tail.
C16_LastTokenDropped ==
    /\ dispatches("formatCommand")
    /\ sf.index + 2 = Len(sf.tokens)
    /\ ~hasCommandOrEndAfter(sf)
    /\ tokensUntilNextCommandOrQueryEnd(sf) = <<>>


\* A step of the loop that formats a `,` operator.
atComma ==
    /\ dispatches("formatOperator")
    /\ loopToken(sf).value = ","

\* The buffer after a comma: pending spaces and tabs are dropped, the comma
\* follows, then either a line break with the indentation or one space.
afterComma(newline) ==
    trimSpacesEnd(sf.query) \o "," \o (IF newline THEN "\n" \o getIndent(sf) ELSE " ")

lastWasComma ==
    /\ pc = "loop"
    /\ sf.index >= 1
    /\ sf.tokens[sf.index].type = "OPERATOR"
    /\ sf.tokens[sf.index].value = ","

C17_InlineComma ==
    /\ lastWasComma
    /\ sf.currentNewline
    /\ inlineBlockIsActive(sf)
    /\ endsWith(sf.query, "a, ")

\* A comma of a list outside inline blocks and not after LIMIT that no line
\* break follows: the command decided against multi-line mode.
C17_CommaWithoutNewline ==
    /\ lastWasComma
    /\ ~sf.currentNewline
    /\ ~inlineBlockIsActive(sf)
    /\ ~isTokenLIMIT(getPreviousReservedToken(sf))
    /\ endsWith(sf.query, ", ")


\* The position of the command whose clause contains the token at position
\* i: the nearest command before i that is not inside a parenthesised block
\* closed before i (0 when there is none).
RECURSIVE enclosingCommand(_, _, _)
enclosingCommand(tokens, i, depth) ==
    IF i < 1 THEN 0
    ELSE IF tokens[i].type = "BLOCK_END" THEN enclosingCommand(tokens, i - 1, depth + 1)
    ELSE IF tokens[i].type = "BLOCK_START"
         THEN enclosingCommand(tokens, i - 1, IF depth > 0 THEN depth - 1 ELSE 0)
    ELSE IF tokens[i].type = "RESERVED_COMMAND" /\ depth = 0 THEN i
    ELSE enclosingCommand(tokens, i - 1, depth)

\* The position of the last command before position i (0 when there is none).
RECURSIVE latestCommand(_, _)
latestCommand(tokens, i) ==
    IF i < 1 THEN 0
    ELSE IF tokens[i].type = "RESERVED_COMMAND" THEN i
    ELSE latestCommand(tokens, i - 1)

\* The multiline decision format() takes at the command at position k.
decisionAt(k) ==
    LET f == loopHead([sf EXCEPT !.index = k - 1])
    IN  checkNewline(f, loopToken(f))

\* The loop is about to format a comma or a logical operator.
atCommaOrLogicalOperator ==
    /\ pc = "loop"
    /\ sf.index < Len(sf.tokens)
    /\ \/ handlerOf(loopToken(sf)) = "formatLogicalOperator"
       \/ handlerOf(loopToken(sf)) = "formatOperator" /\ loopToken(sf).value = ","

\* C18: at every comma and every logical operator, currentNewline is the
\* multiline decision taken for the command whose clause contains the token;
\* after a parenthesised subquery is closed it is the outer command's
\* decision again.
C18_EnclosingCommand ==
    atCommaOrLogicalOperator =>
        LET k == enclosingCommand(sf.tokens, sf.index, 0)
        IN  k > 0 => sf.currentNewline = decisionAt(k)

\* What the single field holds: the decision of the last command processed,
\* wherever that command is.
C18_LatestCommandDecides ==
    atCommaOrLogicalOperator =>
        LET k == latestCommand(sf.tokens, sf.index)
        IN  k > 0 => sf.currentNewline = decisionAt(k)

\* After the subquery of `select a, (select b from t), c` the outer SELECT
\* decided for multi-line mode, the FROM inside the subquery against it, and
\* the comma after `)` is about to be formatted with the FROM's decision.
C18_InnerDecisionLeaks ==
    /\ atCommaOrLogicalOperator
    /\ loopToken(sf).value = ","
    /\ sf.index >= 1
    /\ sf.tokens[sf.index].type = "BLOCK_END"
    /\ enclosingCommand(sf.tokens, sf.index, 0) = 1
    /\ latestCommand(sf.tokens, sf.index) > 1
    /\ decisionAt(1)
    /\ ~sf.currentNewline


\* The loop is about to format a command.
atCommand == dispatches("formatCommand")

\* The SELECT-with-CASE override applies to the command about to be formatted.
overrideApplies ==
    /\ isTokenSELECT(loopToken(sf))
    /\ hasCase(tokensUntilNextCommandOrQueryEnd(sf))

\* The text whose length is the width: each value of the tail, a `,`
\* followed by a space.
RECURSIVE spacedValues(_)
spacedValues(tokens) ==
    IF tokens = <<>> THEN ""
    ELSE Head(tokens).value \o (IF Head(tokens).value = "," THEN " " ELSE "")
             \o spacedValues(Tail(tokens))

widthOf(token, tail) ==
    Len(token.whitespaceBefore \o token.value \o " " \o spacedValues(tail))

\* The number of parenthesised blocks of the tail that are open before
\* position k; a closing paren without its opener closes nothing.
RECURSIVE blocksOpenAt(_, _)
blocksOpenAt(tail, k) ==
    IF k <= 1 THEN 0
    ELSE LET below == blocksOpenAt(tail, k - 1)
         IN  IF tail[k - 1].type = "BLOCK_START" THEN below + 1
             ELSE IF tail[k - 1].type = "BLOCK_END" /\ below > 0 THEN below - 1
             ELSE below

\* Opening parens minus closing parens before position k.
RECURSIVE runningBalance(_, _)
runningBalance(tail, k) ==
    IF k <= 1 THEN 0
    ELSE runningBalance(tail, k - 1)
             + (IF tail[k - 1].type = "BLOCK_START" THEN 1
                ELSE IF tail[k - 1].type = "BLOCK_END" THEN -1 ELSE 0)

commasOutsideBlocks(tail) ==
    Cardinality({ k \in 1..Len(tail) : tail[k].value = "," /\ blocksOpenAt(tail, k) = 0 })

commasAtBalanceZero(tail) ==
    Cardinality({ k \in 1..Len(tail) : tail[k].value = "," /\ runningBalance(tail, k) = 0 })

\* The decision table, for a given count of the list's commas.
tableDecision(commas) ==
    LET tail == tokensUntilNextCommandOrQueryEnd(sf)
        width == widthOf(loopToken(sf), tail)
    IN  CASE cfg.multilineLists = "always" -> TRUE
          [] cfg.multilineLists = "avoid" -> FALSE
          [] cfg.multilineLists = "expressionWidth" -> width > cfg.expressionWidth
          [] cfg.multilineLists = "number" ->
                 1 + commas > cfg.multilineListsN \/ width > cfg.expressionWidth

tableApplies ==
    /\ atCommand
    /\ ~overrideApplies
    /\ cfg.multilineLists \in {"always", "avoid", "expressionWidth", "number"}

\* C19: when the SELECT-with-CASE override does not apply, the decision for
\* a command is true for 'always', false for 'avoid', width > expressionWidth
\* for 'expressionWidth', and for an integer N clause count > N or
\* width > expressionWidth, the clause count being 1 plus the tail commas
\* outside every parenthesised block, also when the tail holds a closing
\* paren without its opener.
C19_DecisionTable ==
    [][ tableApplies =>
          sf'.currentNewline =
              tableDecision(commasOutsideBlocks(tokensUntilNextCommandOrQueryEnd(sf)))
      ]_vars

\* The table with the count the code takes: a comma counts when as many
\* parens were closed as opened before it.
C19_TableWithRunningBalance ==
    [][ tableApplies =>
          sf'.currentNewline =
              tableDecision(commasAtBalanceZero(tokensUntilNextCommandOrQueryEnd(sf)))
      ]_vars

lastWasCommand ==
    /\ pc = "loop"
    /\ sf.index >= 1
    /\ sf.tokens[sf.index].type = "RESERVED_COMMAND"

\* A command whose width equals expressionWidth stayed on one line.
C19_WidthEqualGivesFalse ==
    /\ lastWasCommand
    /\ cfg.multilineLists = "expressionWidth"
    /\ LET f == [sf EXCEPT !.index = @ - 1]
       IN  widthOf(loopToken(f), tokensUntilNextCommandOrQueryEnd(f)) = cfg.expressionWidth
    /\ ~sf.currentNewline

\* A command that went multi-line on its width alone under an integer N.
C19_WidthAloneDecides ==
    /\ lastWasCommand
    /\ cfg.multilineLists = "number"
    /\ LET f == [sf EXCEPT !.index = @ - 1]
           tail == tokensUntilNextCommandOrQueryEnd(f)
       IN  /\ 1 + commasOutsideBlocks(tail) <= cfg.multilineListsN
           /\ widthOf(loopToken(f), tail) > cfg.expressionWidth
    /\ sf.currentNewline

\* The FROM of `select a, (select b from t), c or d` under N = 1: its tail
\* `t ) ,` holds a comma outside every block, so the clause count is 2, and
\* the command stayed on one line.
C19_CommaAfterCloseNotCounted ==
    /\ lastWasCommand
    /\ cfg.multilineLists = "number"
    /\ LET f == [sf EXCEPT !.index = @ - 1]
           tail == tokensUntilNextCommandOrQueryEnd(f)
       IN  1 + commasOutsideBlocks(tail) > cfg.multilineListsN
    /\ ~isTokenSELECT(sf.tokens[sf.index])
    /\ ~sf.currentNewline


\* The loop is about to format a token of the given type.
atTokenOfType(type) ==
    /\ pc = "loop"
    /\ sf.index < Len(sf.tokens)
    /\ loopToken(sf).type = type

\* The steps at which blockLevel is to go up, and to go down.
opensBlockLevel ==
    \/ atTokenOfType("BLOCK_START") /\ ~inlineBlockIsActive(sf')
    \/ atTokenOfType("RESERVED_CASE_START")

closesBlockLevel ==
    \/ atTokenOfType("BLOCK_END") /\ ~inlineBlockIsActive(sf)
    \/ atTokenOfType("RESERVED_CASE_END")

\* The paren of an inline block, opening or closing, is about to be formatted.
inlineParen ==
    \/ atTokenOfType("BLOCK_START") /\ inlineBlockIsActive(sf')
    \/ atTokenOfType("BLOCK_END") /\ inlineBlockIsActive(sf)

\* Parens and CASE/END are properly nested and balanced.
RECURSIVE properlyNested(_, _)
properlyNested(tokens, open) ==
    IF tokens = <<>> THEN open = <<>>
    ELSE LET type == Head(tokens).type
         IN  IF type \in {"BLOCK_START", "RESERVED_CASE_START"}
             THEN properlyNested(Tail(tokens), <<type>> \o open)
             ELSE IF type = "BLOCK_END"
                  THEN /\ open # <<>>
                       /\ Head(open) = "BLOCK_START"
                       /\ properlyNested(Tail(tokens), Tail(open))
             ELSE IF type = "RESERVED_CASE_END"
                  THEN /\ open # <<>>
                       /\ Head(open) = "RESERVED_CASE_START"
                       /\ properlyNested(Tail(tokens), Tail(open))
             ELSE properlyNested(Tail(tokens), open)

C20_InlineInsideCase ==
    /\ pc = "loop"
    /\ inlineBlockIsActive(sf)
    /\ sf.blockLevel = 2


\* The top level after a command: decreased (not below 0), then increased
\* unless the style is tabular and the next token's value is `(`.
topLevelAfterCommand ==
    LET decreased == IF sf.topLevel > 0 THEN sf.topLevel - 1 ELSE 0
        skipped == isTabularStyle(cfg) /\ tokenLookAhead(sf, 1).value = "("
    IN  IF skipped THEN decreased ELSE decreased + 1

\* What follows the command in the buffer: a line break with the new
\* indentation, or spaces only.
commandEndsLine(f, text) == endsWith(f.query, text \o "\n" \o getIndent(f))

commandEndsInSpace(f, text) ==
    /\ endsWith(trimEnd(f.query), text)
    /\ trimEnd(f.query) = trimSpacesEnd(f.query)
    /\ endsWith(f.query, " ")

\* C21: a command first decreases the top level and then increases it, the
\* increase being skipped exactly in a tabular style before a token whose
\* value is `(`; in standard style the top level is at least 1 after every
\* command and a command met at top level 1 or more leaves it as it is, so
\* that no run of commands accumulates indentation; after the token a line
\* break is emitted iff currentNewline is true and the style is not
\* tabular, and a space otherwise.
C21_CommandIndentation ==
    /\ [][ atCommand =>
             /\ sf'.topLevel = topLevelAfterCommand
             /\ sf'.blockLevel = sf.blockLevel
             /\ ~isTabularStyle(cfg) =>
                    /\ sf'.topLevel >= 1
                    /\ sf.topLevel >= 1 => sf'.topLevel = sf.topLevel
             /\ IF sf'.currentNewline /\ ~isTabularStyle(cfg)
                THEN commandEndsLine(sf', show(loopToken(sf)))
                ELSE commandEndsInSpace(sf', show(loopToken(sf)))
         ]_vars
    /\ [](sf.topLevel <= 1)

\* `select a, b from t where x > 1` in standard style and multi-line mode:
\* the third command of the run has been emitted, the top level is still 1
\* and the line ends after `where`.
C21_Witness ==
    /\ lastWasCommand
    /\ ~isTabularStyle(cfg)
    /\ sf.currentNewline
    /\ Cardinality({ i \in 1..sf.index : sf.tokens[i].type = "RESERVED_COMMAND" }) = 3
    /\ sf.blockLevel = 0
    /\ sf.topLevel = 1
    /\ commandEndsLine(sf, show(sf.tokens[sf.index]))

\* In a tabular style a command before `(` left the top level at 0.
C21_TabularBeforeParen ==
    /\ lastWasCommand
    /\ isTabularStyle(cfg)
    /\ sf.index < Len(sf.tokens)
    /\ sf.tokens[sf.index + 1].value = "("
    /\ sf.topLevel = 0


\* The loop is about to format a binary command; whether it is a JOIN.
atBinaryCommand == dispatches("formatBinaryCommand")

nextIsJoin == containsJOIN(loopToken(sf).value)

\* The token starts a line of the buffer, at the current indentation.
startsLine(f, text) == endsWith(trimEnd(f.query), "\n" \o getIndent(f) \o text)

\* C22: a binary command is always emitted at the start of a new line; the
\* top level is decreased (not below 0) iff the token does not match JOIN
\* or the style is tabular, and the block level is unchanged; a JOIN is
\* followed by a space and any other binary command by a line break,
\* whatever currentNewline is.
C22_BinaryCommand ==
    [][ atBinaryCommand =>
          /\ sf'.topLevel =
                 IF ~nextIsJoin \/ isTabularStyle(cfg)
                 THEN (IF sf.topLevel > 0 THEN sf.topLevel - 1 ELSE 0)
                 ELSE sf.topLevel
          /\ sf'.blockLevel = sf.blockLevel
          /\ sf'.currentNewline = sf.currentNewline
          /\ startsLine(sf', show(loopToken(sf)))
          /\ IF nextIsJoin
             THEN commandEndsInSpace(sf', show(loopToken(sf)))
             ELSE commandEndsLine(sf', show(loopToken(sf)))
      ]_vars

lastWasBinaryCommand ==
    /\ pc = "loop"
    /\ sf.index >= 1
    /\ sf.tokens[sf.index].type = "RESERVED_BINARY_COMMAND"

\* The `left join` of `select a x from t left join u on c` has been emitted
\* in standard style and multi-line mode: the top level is still 1 and a
\* space follows the token.
C22_Witness ==
    /\ lastWasBinaryCommand
    /\ containsJOIN(sf.tokens[sf.index].value)
    /\ ~isTabularStyle(cfg)
    /\ sf.currentNewline
    /\ sf.topLevel = 1
    /\ commandEndsInSpace(sf, show(sf.tokens[sf.index]))

\* A `union` in single-line mode took the top level from 1 to 0 and ended
\* its line.
C22_SetOperator ==
    /\ lastWasBinaryCommand
    /\ ~containsJOIN(sf.tokens[sf.index].value)
    /\ ~sf.currentNewline
    /\ sf.index >= 2
    /\ sf.tokens[sf.index - 1].type = "RESERVED_COMMAND"
    /\ sf.topLevel = 0
    /\ endsWith(sf.query, "\n")

\* After a JOIN in a tabular style the top level is 0.
C22_TabularJoin ==
    /\ lastWasBinaryCommand
    /\ containsJOIN(sf.tokens[sf.index].value)
    /\ isTabularStyle(cfg)
    /\ sf.topLevel = 0


\* The loop is about to format a logical operator that the BETWEEN
\* exemption does not cover.
atLogicalOperator ==
    /\ dispatches("formatLogicalOperator")
    /\ ~(isTokenAND(loopToken(sf)) /\ isTokenBETWEEN(tokenLookBehind(sf, 2)))

\* C23: for a logical operator outside the BETWEEN exemption, with
\* logicalOperatorNewline 'before' the operator starts a new line and no
\* line break follows it, with 'after' a line break follows it and none is
\* put before it, in both cases iff currentNewline is true (no line break
\* is added at all when it is false); in tabular styles the top level is
\* first decreased by one, not below 0, and in standard style both counters
\* are unchanged.
C23_LogicalOperatorNewline ==
    [][ atLogicalOperator =>
          LET text == show(loopToken(sf))
          IN  /\ sf'.topLevel =
                     IF isTabularStyle(cfg) /\ sf.topLevel > 0
                     THEN sf.topLevel - 1 ELSE sf.topLevel
              /\ sf'.blockLevel = sf.blockLevel
              /\ sf'.currentNewline = sf.currentNewline
              /\ ~sf.currentNewline => lineBreaks(sf'.query) = lineBreaks(sf.query)
              /\ IF cfg.logicalOperatorNewline = "before"
                 THEN /\ endsWith(sf'.query, text \o " ")
                      /\ sf.currentNewline => startsLine(sf', text)
                 ELSE /\ lineBreaks(beforeLast(sf')) = lineBreaks(sf.query)
                      /\ IF sf.currentNewline
                         THEN commandEndsLine(sf', text)
                         ELSE endsWith(sf'.query, text)
      ]_vars

lastWasLogicalOperator ==
    /\ pc = "loop"
    /\ sf.index >= 3
    /\ sf.tokens[sf.index].type = "RESERVED_LOGICAL_OPERATOR"
    /\ ~isTokenBETWEEN(sf.tokens[sf.index - 2])

\* With logicalOperatorNewline 'after' and multi-line mode, an operator
\* that follows a word has been emitted on the word's line and ends it.
C23_Witness ==
    /\ lastWasLogicalOperator
    /\ cfg.logicalOperatorNewline = "after"
    /\ sf.currentNewline
    /\ sf.tokens[sf.index - 1].type = "IDENTIFIER"
    /\ ~startsLine(sf, show(sf.tokens[sf.index]))
    /\ commandEndsLine(sf, show(sf.tokens[sf.index]))

\* With 'before' and multi-line mode, an operator that follows a word
\* starts its line.
C23_NewlineBefore ==
    /\ lastWasLogicalOperator
    /\ cfg.logicalOperatorNewline = "before"
    /\ sf.currentNewline
    /\ sf.tokens[sf.index - 1].type = "IDENTIFIER"
    /\ startsLine(sf, show(sf.tokens[sf.index]))
    /\ endsWith(sf.query, " ")

\* In single-line mode the operator stays on the line of the word before it.
C23_SingleLine ==
    /\ lastWasLogicalOperator
    /\ ~sf.currentNewline
    /\ sf.tokens[sf.index - 1].type = "IDENTIFIER"
    /\ ~startsLine(sf, show(sf.tokens[sf.index]))
    /\ lineBreaks(sf.query) = lineBreaks(beforeLast(sf))

\* In a tabular style an operator took the top level to 0.
C23_TabularDecrease ==
    /\ lastWasLogicalOperator
    /\ isTabularStyle(cfg)
    /\ sf.tokens[sf.index - 1].type = "IDENTIFIER"
    /\ sf.tokens[sf.index - 2].type = "RESERVED_COMMAND"
    /\ sf.topLevel = 0


\* The loop is about to format an operator other than `,` and `;`.
atPlainOperator ==
    /\ dispatches("formatOperator")
    /\ loopToken(sf).value \notin {",", ";"}

\* The buffer after the operator, by the spaces put around it.
spacedBefore(text) ==
    IF atLineStart(sf.query) THEN sf.query \o text
    ELSE trimSpacesEnd(sf.query) \o " " \o text

glued(text) == trimSpacesEnd(sf.query) \o text

\* The per-character rules and the denseOperators rule of formatOperator.
operatorRules ==
    LET value == loopToken(sf).value
        text == show(loopToken(sf))
        afterCommand == sf.index >= 1 /\ sf.tokens[sf.index].type = "RESERVED_COMMAND"
    IN  sf'.query =
            IF value \in {".", "{", "}"} THEN glued(text)
            ELSE IF value \in {"$", "["} THEN spacedBefore(text)
            ELSE IF value \in {":", "]"} THEN glued(text) \o " "
            ELSE IF cfg.denseOperators /\ ~afterCommand THEN glued(text)
            ELSE spacedBefore(text) \o " "

\* `select a.b from t` as the lexer hands it over: the `.` is a
\* PROPERTY_ACCESS_OPERATOR.
SelectProperty ==
    <<Select, Id("a"), Word("PROPERTY_ACCESS_OPERATOR", ".", ""), Word("IDENTIFIER", "b", ""),
      From(" "), Id("t")>>

formatsProperty == pc = "done" /\ statements = <<SelectProperty>>

\* C24: the per-character rules win over denseOperators: `.`, `{`, `}` are
\* emitted with no space on either side, `$` and `[` with a space before
\* only, `:` and `]` with a space after only, for both values of
\* denseOperators; every other operator except `,` and `;` is glued iff
\* denseOperators is true and the token before it is not a
\* RESERVED_COMMAND, and has a space on each side otherwise; so the `a.b`
\* of `select a.b from t` stays `a.b`.
C24_OperatorSpacing ==
    /\ [][ atPlainOperator => operatorRules ]_vars
    /\ [](formatsProperty => contains(formatted, "a.b"))

\* The rules as they hold for the tokens that reach formatOperator, the
\* tokens of category OPERATOR.
C24_RulesForOperatorTokens == [][ atPlainOperator => operatorRules ]_vars

\* `select a.b from t` is output with a space on each side of the `.`: the
\* token is not of category OPERATOR and is formatted as a word.
C24_PropertyAccessSpaced ==
    /\ formatsProperty
    /\ contains(formatted, "a . b")

\* With denseOperators the `*` after `select` kept its spaces.
C24_DenseAfterCommand ==
    /\ pc = "loop"
    /\ cfg.denseOperators
    /\ sf.index = 2
    /\ sf.tokens[1].type = "RESERVED_COMMAND"
    /\ sf.tokens[2].type = "OPERATOR"
    /\ endsWith(sf.query, " * ")

\* With denseOperators the `>` of `x > 1` was glued to the `x`; the space
\* after it is the one the next word puts before itself.
C24_DenseGlued ==
    /\ pc = "done"
    /\ cfg.denseOperators
    /\ contains(formatted, "x> 1")

\* `a : b $ 1 + 2` with denseOperators: `:` has a space after only, `$` a
\* space before only (the next word puts one before itself), `+` is glued.
C24_PerCharacterWins ==
    /\ pc = "done"
    /\ cfg.denseOperators
    /\ contains(formatted, "a: b $ 1+ 2")


(***************************************************************************)
(* Composition of the disambiguation passes                                *)
(***************************************************************************)

\* What the array holds after n passes over the argument.
afterPasses(n, tokens) ==
    LET p1 == [i \in 1..Len(tokens) |-> propertyNameKeywordToIdent(tokens[i], i, tokens)]
        p2 == [i \in 1..Len(p1) |-> funcNameToIdent(p1[i], i, p1)]
        p3 == [i \in 1..Len(p2) |-> dataTypeToParameterizedDataType(p2[i], i, p2)]
        p4 == [i \in 1..Len(p3) |-> identToArrayIdent(p3[i], i, p3)]
        p5 == [i \in 1..Len(p4) |-> dataTypeToArrayKeyword(p4[i], i, p4)]
    IN  CASE n = 0 -> tokens [] n = 1 -> p1 [] n = 2 -> p2
          [] n = 3 -> p3 [] n = 4 -> p4 [] n = 5 -> p5

\* C25: the passes compose in order, each over the whole array the pass
\* before it produced: after n passes the array is the n-fold composition
\* applied to the argument. So a RESERVED_FUNCTION_NAME whose next
\* non-comment token is `[` ends as ARRAY_IDENTIFIER, a RESERVED_DATA_TYPE
\* next to a property-access operator ends as ARRAY_IDENTIFIER when `[`
\* follows it and as IDENTIFIER when `(` follows it.
C25_PassesCompose ==
    /\ dpass \in 0..5 => stream = afterPasses(dpass, input)
    /\ Disambiguated =>
        \A i \in 1..Len(input) :
            /\ input[i].type = "RESERVED_FUNCTION_NAME" /\ FollowedBy(input, i, LBracket)
                   => stream[i].type = "ARRAY_IDENTIFIER"
            /\ input[i].type = "RESERVED_DATA_TYPE" /\ NextToDot(input, i)
                 /\ FollowedBy(input, i, LBracket)
                   => stream[i].type = "ARRAY_IDENTIFIER"
            /\ input[i].type = "RESERVED_DATA_TYPE" /\ NextToDot(input, i)
                 /\ FollowedBy(input, i, LParen)
                   => stream[i].type = "IDENTIFIER"

\* `. int [`: the data type after a property-access operator and before
\* `[` was made IDENTIFIER by the first pass and ARRAY_IDENTIFIER by the
\* fourth, with its raw text.
C25_Witness ==
    /\ Disambiguated
    /\ \E j \in 1..Len(input) :
        /\ input[j].type = "RESERVED_DATA_TYPE"
        /\ PrecededBy(input, j, Dot)
        /\ FollowedBy(input, j, LBracket)
        /\ stream[j].type = "ARRAY_IDENTIFIER"
        /\ stream[j].text = input[j].raw
        /\ afterPasses(1, input)[j].type = "IDENTIFIER"

\* `count [`: the function name was made IDENTIFIER by the second pass and
\* ARRAY_IDENTIFIER by the fourth.
C25_FunctionNameBeforeBracket ==
    /\ Disambiguated
    /\ \E i \in 1..Len(input) :
        /\ input[i].type = "RESERVED_FUNCTION_NAME"
        /\ FollowedBy(input, i, LBracket)
        /\ afterPasses(1, input)[i].type = "RESERVED_FUNCTION_NAME"
        /\ afterPasses(2, input)[i].type = "IDENTIFIER"
        /\ stream[i].type = "ARRAY_IDENTIFIER"

\* A data type next to a property-access operator and followed by `(`
\* ended as IDENTIFIER.
C25_DataTypeBeforeParen ==
    /\ Disambiguated
    /\ \E i \in 1..Len(input) :
        /\ input[i].type = "RESERVED_DATA_TYPE"
        /\ NextToDot(input, i)
        /\ FollowedBy(input, i, LParen)
        /\ stream[i].type = "IDENTIFIER"


\* C26: disambiguateTokens is idempotent: applied to its own result it
\* returns that result, position by position, category and text; the result
\* is the array the five passes leave.
C26_Idempotent ==
    LET once == disambiguateTokens(input)
    IN  /\ disambiguateTokens(once) = once
        /\ Disambiguated => stream = once

\* A result in which a token was made IDENTIFIER with its raw text, one
\* ARRAY_IDENTIFIER or ARRAY_KEYWORD and one kept its reserved category; a
\* second application leaves all of them.
C26_Witness ==
    /\ Disambiguated
    /\ disambiguateTokens(stream) = stream
    /\ \E i, j, k \in 1..Len(stream) :
        /\ isReservedType(input[i].type)
        /\ stream[i].type = "IDENTIFIER"
        /\ stream[i].text # input[i].text
        /\ input[j].type # stream[j].type
        /\ stream[j].type \in {"ARRAY_IDENTIFIER", "ARRAY_KEYWORD"}
        /\ isReservedType(stream[k].type)

=============================================================================
